---- MODULE Spec2Model ----
(***************************************************************************)
(* A model of crusti_g2io: the dense-indexed Graph container               *)
(* (src/core/graph.rs) and the inner/outer composition pipeline            *)
(* (src/core/inner_outer_generator.rs).                                    *)
(*                                                                         *)
(* Two specifications are defined over the same variables:                 *)
(*   GraphSpec  the Graph API applied to one graph object;                 *)
(*   Spec       two successive InnerOuterGenerator::new_inner_outer calls  *)
(*              started from the same RNG seed, with the two rayon         *)
(*              parallel maps interleaved task by task.                    *)
(***************************************************************************)
EXTENDS Integers, Sequences, FiniteSets, TLC

\* ------------------------------------------------------------------ bounds
\* Graph API exploration
MaxNodes == 3
MaxEdges == 3
MaxOtherNodes == 2
MaxOtherEdges == 2
\* Pipeline exploration
NumListeners == 2
RngMod == 8

\* ------------------------------------------------------------- utilities
Max(a, b) == IF a >= b THEN a ELSE b

Range(s) == {s[i] : i \in DOMAIN s}

\* ------------------------------------------------------------------ Graph
\* A petgraph::Graph<(), (), Directed, usize>: node_count() nodes indexed
\* 0 .. n-1 and the raw edge vector in insertion order.
EmptyGraph == [n |-> 0, edges |-> <<>>]

\* Graph::with_capacity: the capacities are size hints only.
with_capacity(n_nodes, n_edges) == EmptyGraph

n_nodes(g) == g.n

n_edges(g) == Len(g.edges)

\* Graph::new_node: self.0.add_node(())
new_node(g) == [g EXCEPT !.n = @ + 1]

\* (self.n_nodes()..=idx).for_each(|_| add_node): the range is computed once,
\* it is empty when idx < n_nodes and holds idx - n_nodes + 1 values otherwise.
AddMissingNodes_OnlyOne(g, idx) == IF idx >= g.n THEN new_node(g) ELSE g

AddMissingNodes_None(g, idx) == g

AddMissingNodes(g, idx) ==
    IF idx >= g.n THEN [g EXCEPT !.n = @ + (idx - g.n + 1)] ELSE g

\* petgraph find_edge on a directed graph: is there an edge a -> b
find_edge(g, a, b) == \E i \in DOMAIN g.edges : g.edges[i] = <<a, b>>

\* petgraph update_edge: when an edge a -> b exists its (unit) weight is
\* overwritten, otherwise add_edge pushes a new edge.
update_edge(g, a, b) ==
    IF find_edge(g, a, b) THEN g ELSE [g EXCEPT !.edges = Append(@, <<a, b>>)]

\* Graph::new_edge
new_edge(g, from, to) ==
    update_edge(AddMissingNodes(AddMissingNodes(g, from), to), from, to)

\* the for loop of append_graph over g.0.raw_edges(): self after the first k
\* edges of es were inserted
RECURSIVE AppendEdges(_, _, _, _)
AppendEdges(self, es, k, self_n_nodes) ==
    IF k = 0 THEN self
    ELSE LET prev == AppendEdges(self, es, k - 1, self_n_nodes)
         IN  new_edge(prev, es[k][1] + self_n_nodes, es[k][2] + self_n_nodes)

append_graph_NoNodes(self, g) ==
    AppendEdges(self, g.edges, Len(g.edges), self.n)

\* Graph::append_graph
append_graph(self, g) ==
    AppendEdges([self EXCEPT !.n = @ + g.n], g.edges, Len(g.edges), self.n)

\* Graph::iter_edges: raw_edges().iter().map(|e| (e.source().index(),
\* e.target().index())), one pair per stored edge, in storage order
iter_edges(g) == [i \in DOMAIN g.edges |-> <<g.edges[i][1], g.edges[i][2]>>]

\* From<petgraph::Graph>: any petgraph graph, multi-edges included, can be
\* wrapped; these are the graphs handed to append_graph as `g`.
SeqsUpTo(S, len) == UNION {[1..k -> S] : k \in 0..len}

OtherGraphs ==
    UNION {{[n |-> k, edges |-> es] : es \in SeqsUpTo((0..k-1) \X (0..k-1), MaxOtherEdges)}
           : k \in 0..MaxOtherNodes}

\* -------------------------------------------------------------------- RNG
\* A seedable deterministic generator (rand_pcg::Pcg32 in the program),
\* abstracted to RngMod states; a draw advances the state and returns a value.
next_state(s) == (5 * s + 3) % RngMod

next_u64(s) == [value |-> next_state(s), rng |-> next_state(s)]

\* R::seed_from_u64
seed_from_u64(v) == (3 * v + 1) % RngMod

\* rng.sample_iter(Standard).take(n).collect(): n sequential draws
RECURSIVE sample_iter_take(_, _)
sample_iter_take(s, n) ==
    IF n = 0 THEN [values |-> <<>>, rng |-> s]
    ELSE LET d == next_u64(s)
             rest == sample_iter_take(d.rng, n - 1)
         IN  [values |-> <<d.value>> \o rest.values, rng |-> rest.rng]

\* ---------------------------------------------------------------- builders
RECURSIVE ChainEdges(_, _, _)
ChainEdges(gr, i, n) ==
    IF i >= n - 1 THEN gr ELSE ChainEdges(new_edge(gr, i, i + 1), i + 1, n)

\* the closure built by ChainGeneratorFactory::try_with_params
chain_EdgesOnly(n) ==
    IF n = 0 THEN EmptyGraph ELSE ChainEdges(with_capacity(n, n - 1), 0, n)

chain(n) ==
    IF n = 0 THEN EmptyGraph
    ELSE IF n = 1 THEN new_node(with_capacity(1, 0))
    ELSE ChainEdges(with_capacity(n, n - 1), 0, n)

OuterKinds == {"chain2", "chain3", "rand", "wrapped"}

\* outer_graph_builder(rng): a closure that may draw from the shared RNG.
\*   chain2, chain3  chain generators, no draw
\*   rand            one draw decides whether the self-loop (1,1) is added to
\*                   the edges (1,0), (0,1)
\*   wrapped         Graph::from of a petgraph graph that holds the edge (0,1)
\*                   twice, no draw
OuterBuilder(kind, s) ==
    CASE kind = "chain2" -> [graph |-> chain(2), rng |-> s]
      [] kind = "chain3" -> [graph |-> chain(3), rng |-> s]
      [] kind = "wrapped" -> [graph |-> [n |-> 2, edges |-> <<<<0, 1>>, <<0, 1>>>>], rng |-> s]
      [] kind = "rand" ->
            LET d == next_u64(s)
                g0 == new_edge(new_edge(with_capacity(2, 3), 1, 0), 0, 1)
            IN  [graph |-> IF d.value % 2 = 1 THEN new_edge(g0, 1, 1) ELSE g0,
                 rng |-> d.rng]

InnerKinds == {"chain1", "chain2", "chain3", "rand_chain"}

\* inner_graph_builder(&mut r) on a private RNG r.
\*   chain1, chain2, chain3  chain generators, whatever r
\*   rand_chain              a chain whose length (0, 1 or 2) is drawn from r
InnerBuilder(kind, r) ==
    CASE kind = "chain1" -> chain(1)
      [] kind = "chain2" -> chain(2)
      [] kind = "chain3" -> chain(3)
      [] kind = "rand_chain" -> chain(next_u64(r).value % 3)

\* ----------------------------------------------------------------- linkers
FirstToSecond(x, y) == [tag |-> "FirstToSecond", x |-> x, y |-> y]

SecondToFirst(x, y) == [tag |-> "SecondToFirst", x |-> x, y |-> y]

\* the closure of linkers/first_to_first.rs
first_to_first(bidirectional) ==
    IF bidirectional
    THEN <<FirstToSecond(0, 0), SecondToFirst(0, 0)>>
    ELSE <<FirstToSecond(0, 0)>>

\* proba_uniform.sample(rng) < p: a draw v of 0 .. RngMod-1 stands for the
\* sample v / RngMod and the threshold t for the probability p = t / RngMod
sample_below_p(v, t) == v < t

\* the state of a generator after m draws
RECURSIVE nth_state(_, _)
nth_state(s, m) == IF m = 0 THEN s ELSE next_state(nth_state(s, m - 1))

\* the closure of linkers/random.rs: for i in 0..n1, for j in 0..n2; when the
\* loop is at (i, j) the task's RNG r has been drawn from once (twice when
\* bidirectional) per earlier pair; t is the threshold of p
RECURSIVE random_linker(_, _, _, _, _, _, _)
random_linker(t, n1, n2, i, j, r, bidirectional) ==
    IF i >= n1 THEN <<>>
    ELSE IF j >= n2 THEN random_linker(t, n1, n2, i + 1, 0, r, bidirectional)
    ELSE LET c == (i * n2 + j) * (IF bidirectional THEN 2 ELSE 1)
             e1 == IF sample_below_p(nth_state(r, c + 1), t)
                   THEN <<FirstToSecond(i, j)>> ELSE <<>>
             e2 == IF bidirectional /\ sample_below_p(nth_state(r, c + 2), t)
                   THEN <<SecondToFirst(j, i)>> ELSE <<>>
         IN  e1 \o e2 \o random_linker(t, n1, n2, i, j + 1, r, bidirectional)

\* first, first_bi, random_bi/0.5 and random_bi/1
LinkerKinds == {"first", "first_bi", "random_bi_half", "random_bi_one"}

\* linker((a, inner[a]), (b, inner[b]), &mut rng)
Linker(kind, ia, ga, ib, gb, r) ==
    CASE kind = "first" -> first_to_first(FALSE)
      [] kind = "first_bi" -> first_to_first(TRUE)
      [] kind = "random_bi_half" ->
            random_linker(RngMod \div 2, n_nodes(ga), n_nodes(gb), 0, 0, r, TRUE)
      [] kind = "random_bi_one" ->
            random_linker(RngMod, n_nodes(ga), n_nodes(gb), 0, 0, r, TRUE)

\* ------------------------------------------------- InnerOuterGenerator
\* the private RNG of the task of the i-th seed (i from 1)
TaskRng_FirstSeed(task_seeds, i) == seed_from_u64(task_seeds[1])

TaskRng(task_seeds, i) == seed_from_u64(task_seeds[i])

\* rayon's indexed collect(): the results in index order, whatever the order
\* in which the tasks completed
Collect_CompletionOrder(results, order) == [k \in DOMAIN results |-> results[order[k]]]

Collect(results, order) == [k \in DOMAIN results |-> results[k]]

\* inner_graphs.iter().for_each(|g| global_graph.append_graph(g)): gg after
\* the first k graphs were appended
RECURSIVE FoldAppend(_, _, _)
FoldAppend(gg, graphs, k) ==
    IF k = 0 THEN gg
    ELSE LET prev == FoldAppend(gg, graphs, k - 1)
         IN  append_graph(prev, graphs[k])

\* the fold computing cumulated_n_nodes, after the first k graphs (a 0-based
\* vector, kept as a sequence whose element i+1 is the vector's element i)
RECURSIVE FoldCumulated_NodeCounts(_, _)
FoldCumulated_NodeCounts(graphs, k) ==
    IF k = 0 THEN <<>>
    ELSE LET v == FoldCumulated_NodeCounts(graphs, k - 1)
         IN  IF v = <<>>
             THEN <<0, n_nodes(graphs[k])>>
             ELSE Append(v, n_nodes(graphs[k]))

RECURSIVE FoldCumulated(_, _)
FoldCumulated(graphs, k) ==
    IF k = 0 THEN <<>>
    ELSE LET v == FoldCumulated(graphs, k - 1)
         IN  IF v = <<>>
             THEN <<0, n_nodes(graphs[k])>>
             ELSE Append(v, v[Len(v)] + n_nodes(graphs[k]))

\* the match of add_linking_edges: SecondToFirst(b, a) binds b to the first
\* field and a to the second
global_node_ids(e, outer_edge, cum) ==
    IF e.tag = "FirstToSecond"
    THEN LET a == e.x  b == e.y
         IN  <<a + cum[outer_edge[1] + 1], b + cum[outer_edge[2] + 1]>>
    ELSE LET b == e.x  a == e.y
         IN  <<a + cum[outer_edge[2] + 1], b + cum[outer_edge[1] + 1]>>

\* all_global_edges.into_iter().flatten()
RECURSIVE Flatten(_, _)
Flatten(ss, k) == IF k > Len(ss) THEN <<>> ELSE ss[k] \o Flatten(ss, k + 1)

\* the closure of the final for_each: |(from, to)| global_graph.new_edge(from, to)
insert_global_edge_RejectMissingNode(gg, e) ==
    IF e[1] < n_nodes(gg) /\ e[2] < n_nodes(gg) THEN new_edge(gg, e[1], e[2]) ELSE gg

insert_global_edge(gg, e) == new_edge(gg, e[1], e[2])

\* self.generation_step_listeners.iter().for_each(|l| (l)(step))
notify_FirstListenerOnly(log, step) == Append(log, <<1, step>>)

notify(log, step) == log \o [l \in 1..NumListeners |-> <<l, step>>]

\* ------------------------------------------------ min_incoming linker
\* Option<Vec<usize>>
None == [some |-> FALSE, v |-> <<>>]

Some(v) == [some |-> TRUE, v |-> v]

\* n_incoming after the for_each has visited the first k edges
RECURSIVE n_incoming(_, _)
n_incoming(gr, k) ==
    IF k = 0 THEN [i \in 1..gr.n |-> 0]
    ELSE LET c == n_incoming(gr, k - 1)
         IN  [c EXCEPT ![gr.edges[k][2] + 1] = @ + 1]

\* n_incoming.iter().min().copied().unwrap_or_default()
min_n_incoming(c) ==
    IF c = <<>> THEN 0 ELSE CHOOSE m \in Range(c) : \A x \in Range(c) : m <= x

\* enumerate().filter_map(..) over the first k counts: the indices whose
\* count is m, ascending
RECURSIVE filter_min(_, _, _)
filter_min(c, m, k) ==
    IF k = 0 THEN <<>>
    ELSE filter_min(c, m, k - 1) \o (IF c[k] = m THEN <<k - 1>> ELSE <<>>)

\* the computation of compute_min_incoming after the first locked section
uncached_min_incoming(gr) ==
    LET c == n_incoming(gr, Len(gr.edges))
    IN  filter_min(c, min_n_incoming(c), Len(c))

\* cache_handle.resize(1 + g.index(), None) when cache_handle.len() <= g.index()
resize_ToIndex(c, index) ==
    IF Len(c) <= index THEN c \o [k \in 1..(index - Len(c)) |-> None] ELSE c

resize(c, index) ==
    IF Len(c) <= index THEN c \o [k \in 1..(1 + index - Len(c)) |-> None] ELSE c

\* the mutex when compute_min_incoming returns from its first locked section:
\* the guard is dropped
guard_at_return_Leaked(holder) == holder

guard_at_return(holder) == 0

\* the nested for_each of the linker closure over min_incoming_1 and
\* min_incoming_2
min_incoming_links(v1, v2, bidirectional) ==
    IF bidirectional
    THEN [q \in 1..(2 * Len(v1) * Len(v2)) |->
            LET p == (q + 1) \div 2
                n1 == v1[((p - 1) \div Len(v2)) + 1]
                n2 == v2[((p - 1) % Len(v2)) + 1]
            IN  IF q % 2 = 1 THEN FirstToSecond(n1, n2) ELSE SecondToFirst(n2, n1)]
    ELSE [p \in 1..(Len(v1) * Len(v2)) |->
            FirstToSecond(v1[((p - 1) \div Len(v2)) + 1],
                          v2[((p - 1) % Len(v2)) + 1])]

\* ------------------------------------------------- Watts-Strogatz
MaxWsN == 5
MaxWsK == 4
MaxRewires == 3

\* the probabilities that are explored
Probabilities == {"0", "0.5", "1"}

\* the outcomes proba_uniform.sample(r) < p can have: the sample lies in [0, 1]
sample_below(p) == IF p = "0" THEN {FALSE} ELSE {TRUE, FALSE}

\* Graph::remove_edge: removes one matching edge instance; the caller aborts
\* when there is none
remove_edge(gr, from, to) ==
    LET at == CHOOSE x \in DOMAIN gr.edges :
                  /\ gr.edges[x] = <<from, to>>
                  /\ \A y \in 1..(x - 1) : gr.edges[y] # <<from, to>>
    IN  [gr EXCEPT !.edges = SubSeq(@, 1, at - 1) \o SubSeq(@, at + 1, Len(@))]

\* the values of the range a..b, in order
range_seq(a, b) == [x \in 1..(b - a) |-> a + x - 1]

\* Uniform::new(0, n - 1 - k / 2) needs a non-empty range
index_uniform_high(n, k) == n - 1 - (k \div 2)

\* the vector not_targets of node i before its edges are rewired
not_targets(n, k, i) ==
    LET last_target == (i + 1 + (k \div 2)) % n
    IN  IF i < last_target
        THEN range_seq(0, i) \o range_seq(i + 1 + (k \div 2), n)
        ELSE range_seq((i + 1 + (k \div 2)) % n, i)

swap_in_Kept(nt, index, old_target) == nt

\* not_targets[index] = old_target
swap_in(nt, index, old_target) == [nt EXCEPT ![index + 1] = old_target]

NoRewiring == [i |-> 0, old_target |-> 0, new_target |-> 0, pre |-> EmptyGraph]

\* no Watts-Strogatz generator was asked for
NoWs ==
    [pc |-> "idle", n |-> 0, k |-> 0, p |-> "0", g |-> EmptyGraph, i |-> 0, j |-> 0,
     not_targets |-> <<>>, rewired |-> 0, last |-> NoRewiring]

\* ------------------------------------------------- parameter strings
\* A string is a sequence of one-character strings.
MaxLen == 3
MaxTypes == 2

Alphabet == {"0", "1", "3", ".", "-", "+", ",", "/", "a"}

Digits == {"0", "1", "2", "3", "4", "5", "6", "7", "8", "9"}

DigitValue(c) ==
    CASE c = "0" -> 0 [] c = "1" -> 1 [] c = "2" -> 2 [] c = "3" -> 3
      [] c = "4" -> 4 [] c = "5" -> 5 [] c = "6" -> 6 [] c = "7" -> 7
      [] c = "8" -> 8 [] c = "9" -> 9

Strings(n) == UNION {[1..k -> Alphabet] : k \in 0..n}

ParameterTypes == {"PositiveInteger", "Probability"}

TypeLists == UNION {[1..k -> ParameterTypes] : k \in 0..MaxTypes}

\* the positions of c in s
Positions(s, c) == {i \in DOMAIN s : s[i] = c}

FirstPosition(s, c) == CHOOSE i \in Positions(s, c) : \A j \in Positions(s, c) : i <= j

\* s.split(sep).collect::<Vec<&str>>()
RECURSIVE split(_, _)
split(s, sep) ==
    IF Positions(s, sep) = {}
    THEN <<s>>
    ELSE LET i == FirstPosition(s, sep)
         IN  <<SubSeq(s, 1, i - 1)>> \o split(SubSeq(s, i + 1, Len(s)), sep)

\* the decimal value of a sequence of digits
RECURSIVE DecimalValue(_)
DecimalValue(ds) ==
    IF ds = <<>> THEN 0
    ELSE 10 * DecimalValue(SubSeq(ds, 1, Len(ds) - 1)) + DigitValue(ds[Len(ds)])

RECURSIVE Pow10(_)
Pow10(k) == IF k = 0 THEN 1 ELSE 10 * Pow10(k - 1)

AllDigits(s) == \A i \in DOMAIN s : s[i] \in Digits

ParseError == [ok |-> FALSE]

\* str::parse::<usize>(param): an optional "+", then one digit or more
parse_usize(param) ==
    LET body == IF param # <<>> /\ param[1] = "+" THEN Tail(param) ELSE param
    IN  IF body # <<>> /\ AllDigits(body)
        THEN [ok |-> TRUE, value |-> DecimalValue(body)]
        ELSE ParseError

\* str::parse::<f64>(param) on the strings of decimal notation: an optional
\* sign, then digits with at most one ".", with one digit at least. The value
\* is (-1)^neg * num / den; "-0" is the negative zero.
parse_f64(param) ==
    LET signed == param # <<>> /\ param[1] \in {"+", "-"}
        body == IF signed THEN Tail(param) ELSE param
        dots == Positions(body, ".")
        int == IF dots = {} THEN body ELSE SubSeq(body, 1, FirstPosition(body, ".") - 1)
        frac == IF dots = {} THEN <<>>
                ELSE SubSeq(body, FirstPosition(body, ".") + 1, Len(body))
    IN  IF /\ Cardinality(dots) <= 1
           /\ AllDigits(int) /\ AllDigits(frac)
           /\ Len(int) + Len(frac) >= 1
        THEN [ok |-> TRUE,
              neg |-> signed /\ param[1] = "-",
              num |-> DecimalValue(int \o frac),
              den |-> Pow10(Len(frac))]
        ELSE ParseError

\* (0. ..=1.).contains(&p): 0.0 <= p && p <= 1.0, and -0.0 == 0.0
in_unit_interval_Exclusive(p) == ~p.neg /\ 0 < p.num /\ p.num < p.den

in_unit_interval(p) == (p.neg => p.num = 0) /\ p.num <= p.den

\* ParameterType::parse(&self, param)
ParameterType_parse(type, param) ==
    IF type = "PositiveInteger"
    THEN LET n == parse_usize(param)
         IN  IF n.ok
             THEN [err |-> "none", value |-> [type |-> "PositiveInteger", num |-> n.value, den |-> 1]]
             ELSE [err |-> "positive_integer"]
    ELSE LET p == parse_f64(param)
         IN  IF p.ok /\ in_unit_interval(p)
             THEN [err |-> "none", value |-> [type |-> "Probability", num |-> p.num, den |-> p.den]]
             ELSE [err |-> "probability"]

\* the tokens of ParameterParser::parse
parameters_SplitEmpty(str_params) == split(str_params, ",")

parameters(str_params) == IF str_params = <<>> THEN <<>> ELSE split(str_params, ",")

\* (0..parameters.len()).map(|i| self.parameter_types[i].parse(parameters[i]))
parse_each_FirstType(types, toks) ==
    [i \in DOMAIN toks |-> ParameterType_parse(types[1], toks[i])]

parse_each(types, toks) ==
    [i \in DOMAIN toks |-> ParameterType_parse(types[i], toks[i])]

\* .collect::<Result<Vec<_>>>(): the first error, or all the values
collect_results(rs) ==
    LET bad == {i \in DOMAIN rs : rs[i].err # "none"}
    IN  IF bad = {}
        THEN [err |-> "none", values |-> [i \in DOMAIN rs |-> rs[i].value],
              expected |-> Len(rs), got |-> Len(rs)]
        ELSE [err |-> rs[CHOOSE i \in bad : \A j \in bad : i <= j].err, values |-> <<>>,
              expected |-> Len(rs), got |-> Len(rs)]

\* ParameterParser::new(parameter_types).parse(str_params)
ParameterParser_parse(parameter_types, str_params) ==
    LET toks == parameters(str_params)
    IN  IF Len(toks) # Len(parameter_types)
        THEN [err |-> "arity", values |-> <<>>,
              expected |-> Len(parameter_types), got |-> Len(toks)]
        ELSE collect_results(parse_each(parameter_types, toks))

\* ------------------------------------------------------ named factories
ba_name == <<"b", "a">>
path_name == <<"p", "a", "t", "h">>
er_name == <<"e", "r">>
tree_name == <<"t", "r", "e", "e">>
ws_name == <<"w", "s">>
first_name == <<"f", "i", "r", "s", "t">>
first_bi_name == <<"f", "i", "r", "s", "t", "_", "b", "i">>
min_incoming_name == <<"m", "i", "n", "_", "i", "n", "c", "o", "m", "i", "n", "g">>
min_incoming_bi_name == min_incoming_name \o <<"_", "b", "i">>
random_name == <<"r", "a", "n", "d", "o", "m">>
random_bi_name == random_name \o <<"_", "b", "i">>

\* names no factory has
chain_name == <<"c", "h", "a", "i", "n">>
foo_name == <<"f", "o", "o">>

\* GENERATOR_FACTORIES_DIRECTED_PCG32: name() and expected_parameter_types()
GENERATOR_FACTORIES ==
    << [name |-> ba_name, types |-> <<"PositiveInteger", "PositiveInteger">>],
       [name |-> path_name, types |-> <<"PositiveInteger">>],
       [name |-> er_name, types |-> <<"PositiveInteger", "Probability">>],
       [name |-> tree_name, types |-> <<"PositiveInteger">>],
       [name |-> ws_name,
        types |-> <<"PositiveInteger", "PositiveInteger", "Probability">>] >>

\* LINKERS_DIRECTED_PCG32: name() and expected_parameter_types()
LINKERS ==
    << [name |-> first_name, types |-> <<>>],
       [name |-> first_bi_name, types |-> <<>>],
       [name |-> min_incoming_name, types |-> <<>>],
       [name |-> min_incoming_bi_name, types |-> <<>>],
       [name |-> random_name, types |-> <<"Probability">>],
       [name |-> random_bi_name, types |-> <<"Probability">>] >>

Collection(c) == IF c = "generators" THEN GENERATOR_FACTORIES ELSE LINKERS

\* s.split_once('/'): the parts around the first '/', or None
split_once(s, c) ==
    IF Positions(s, c) = {}
    THEN [some |-> FALSE, before |-> s, after |-> <<>>]
    ELSE [some |-> TRUE,
          before |-> SubSeq(s, 1, FirstPosition(s, c) - 1),
          after |-> SubSeq(s, FirstPosition(s, c) + 1, Len(s))]

\* named_factory.try_with_params(parameter_values). The path factory always
\* succeeds; what the constructor of another factory returns for well-typed
\* values is given by outcome, "none" or "constructor".
try_with_params(factory, parameter_values, outcome) ==
    [err |-> IF factory.name = path_name THEN "none" ELSE outcome,
     carried |-> <<>>,
     invoked |-> factory.name,
     values |-> parameter_values]

\* Err(anyhow!(r#"unknown named object "{}""#, s))
unknown_named_object_KindOnly(kind, s) ==
    [err |-> "unknown", carried |-> kind, invoked |-> <<>>, values |-> <<>>]

unknown_named_object(kind, s) ==
    [err |-> "unknown", carried |-> s, invoked |-> <<>>, values |-> <<>>]

\* named_from_str(collection, s)
named_from_str(collection, s, outcome) ==
    LET sp == split_once(s, "/")
        kind == sp.before
        str_params == sp.after
        found == {i \in DOMAIN collection : collection[i].name = kind}
    IN  IF found = {}
        THEN unknown_named_object(kind, s)
        ELSE LET named_factory == collection[CHOOSE i \in found : \A j \in found : i <= j]
                 parameter_values == ParameterParser_parse(named_factory.types, str_params)
             IN  IF parameter_values.err # "none"
                 THEN [err |-> parameter_values.err, carried |-> kind,
                       invoked |-> <<>>, values |-> <<>>]
                 ELSE try_with_params(named_factory, parameter_values.values, outcome)

\* ------------------------------------------------------------- variables
VARIABLES
    g,      \* GraphSpec: the graph object the API is applied to
    last,   \* GraphSpec: the last operation, its arguments and the graph before it
    cfg,    \* the seed, the two builders and the linker given to new_inner_outer
    run,    \* 1 or 2: which of the two calls is running
    pc,     \* position of the calling thread in new_inner_outer
    rng,    \* the shared RNG (the caller's &mut R)
    notifications,      \* what the listeners received: <<listener, step>>
    outer_calls,        \* how many times the outer builder ran in this call
    outer_graph,
    inner_seeds,
    inner_tasks,        \* per outer node: state, private RNG, result
    inner_order,        \* the inner tasks in the order they completed
    inner_graphs,
    global_graph,
    cumulated_n_nodes,
    seeds,              \* the link seeds
    link_tasks,         \* per outer edge: state, private RNG, linker result, global edges
    link_order,         \* the linker tasks in the order they completed
    flat_edges,         \* what all_global_edges.into_iter().flatten() has yet to yield
    first_result,       \* the graph returned by the first call
    call,   \* ParamSpec: the last call on a string, its arguments and its result
    mi,     \* CacheSpec: the new_inner_outer call that uses a min_incoming linker
    cache,  \* CacheSpec: the Vec<Option<Vec<usize>>> behind the factory's mutex
    mutex,  \* CacheSpec: the linker task that holds the lock, 0 when it is free
    li,     \* CacheSpec: per outer edge, the position and locals of its linker call
    ws      \* WsSpec: the Watts-Strogatz generator call, its locals and its graph

gvars == <<g, last>>

pvars == <<cfg, run, pc, rng, notifications, outer_calls, outer_graph, inner_seeds, inner_tasks,
           inner_order, inner_graphs, global_graph, cumulated_n_nodes, seeds,
           link_tasks, link_order, flat_edges, first_result>>

qvars == <<call>>

mvars == <<mi, cache, mutex, li>>

wvars == <<ws>>

vars == <<gvars, pvars, qvars, mvars, wvars>>

NoOp == [op |-> "none", from |-> 0, to |-> 0, pre |-> EmptyGraph, other |-> EmptyGraph]

NoCfg == [seed |-> 0, outer |-> "chain2", inner |-> "chain2", linker |-> "first"]

\* the arguments of new_inner_outer that are explored; the random linkers,
\* whose closure visits every pair of nodes, get inner graphs of at most two nodes
Configurations ==
    {c \in [seed : 0..(RngMod - 1), outer : OuterKinds, inner : InnerKinds,
            linker : LinkerKinds] :
        c.inner = "chain3" => c.linker \in {"first", "first_bi"}}

\* the locals of a call that has not started
IdleCall ==
    /\ notifications = <<>>
    /\ outer_calls = 0
    /\ outer_graph = EmptyGraph
    /\ inner_seeds = <<>>
    /\ inner_tasks = <<>>
    /\ inner_order = <<>>
    /\ inner_graphs = <<>>
    /\ global_graph = EmptyGraph
    /\ cumulated_n_nodes = <<>>
    /\ seeds = <<>>
    /\ link_tasks = <<>>
    /\ link_order = <<>>
    /\ flat_edges = <<>>

NoCall == [op |-> "none", pos |-> "start"]

\* no call with a min_incoming linker was made
MiIdle ==
    /\ mi = [pc |-> "idle", run |-> 1, outer |-> <<>>, bidirectional |-> FALSE,
             inner |-> <<>>, prev |-> <<>>]
    /\ cache = <<>>
    /\ mutex = 0
    /\ li = <<>>

\* ------------------------------------------------------- the Graph API
GraphInit ==
    /\ g = EmptyGraph
    /\ last = NoOp
    /\ cfg = NoCfg
    /\ run = 1
    /\ pc = "idle"
    /\ rng = 0
    /\ first_result = [graph |-> EmptyGraph, in_index_order |-> FALSE]
    /\ IdleCall
    /\ call = NoCall
    /\ MiIdle
    /\ ws = NoWs

\* let g = Graph::with_capacity(nn, ne): a fresh graph object
GWithCapacity ==
    \E nn \in 0..MaxNodes, ne \in 0..MaxEdges :
        /\ g' = with_capacity(nn, ne)
        /\ last' = [NoOp EXCEPT !.op = "with_capacity", !.from = nn, !.to = ne]
        /\ UNCHANGED <<pvars, qvars, mvars, wvars>>

GNewNode ==
    /\ g.n < MaxNodes
    /\ g' = new_node(g)
    /\ last' = [NoOp EXCEPT !.op = "new_node", !.pre = g]
    /\ UNCHANGED <<pvars, qvars, mvars, wvars>>

GNewEdge ==
    \E from \in 0..MaxNodes-1, to \in 0..MaxNodes-1 :
        /\ Len(g.edges) < MaxEdges
        /\ g' = new_edge(g, from, to)
        /\ last' = [NoOp EXCEPT !.op = "new_edge", !.from = from, !.to = to, !.pre = g]
        /\ UNCHANGED <<pvars, qvars, mvars, wvars>>

GAppendGraph ==
    \E o \in OtherGraphs :
        /\ g.n + o.n <= MaxNodes
        /\ Len(g.edges) + Len(o.edges) <= MaxEdges
        /\ g' = append_graph(g, o)
        /\ last' = [NoOp EXCEPT !.op = "append_graph", !.pre = g, !.other = o]
        /\ UNCHANGED <<pvars, qvars, mvars, wvars>>

\* g.iter_edges().collect(): the pairs yielded are recorded, g is borrowed
GIterEdges ==
    /\ g' = g
    /\ last' = [NoOp EXCEPT !.op = "iter_edges", !.pre = g,
                            !.other = [n |-> n_edges(g), edges |-> iter_edges(g)]]
    /\ UNCHANGED <<pvars, qvars, mvars, wvars>>

GraphNext ==
    \/ GIterEdges
    \/ GWithCapacity
    \/ GNewNode
    \/ GNewEdge
    \/ GAppendGraph

GraphSpec == GraphInit /\ [][GraphNext]_vars

\* ------------------------------------------- new_inner_outer, step by step
NewInnerTask == [state |-> "pending", rng |-> 0, graph |-> EmptyGraph]

NewLinkTask ==
    [state |-> "pending", rng |-> 0, handles |-> <<>>, inter_attacks |-> <<>>,
     global_edges |-> <<>>]

\* (outer_edge.0, &inner_graphs[outer_edge.0]).into() and its counterpart
linker_handles_FirstTwice(outer_edge, graphs) ==
    << [index |-> outer_edge[1], graph |-> graphs[outer_edge[1] + 1]],
       [index |-> outer_edge[1], graph |-> graphs[outer_edge[1] + 1]] >>

linker_handles(outer_edge, graphs) ==
    << [index |-> outer_edge[1], graph |-> graphs[outer_edge[1] + 1]],
       [index |-> outer_edge[2], graph |-> graphs[outer_edge[2] + 1]] >>

\* the barrier at the end of a rayon parallel map: collect() returns when
\* every task has completed
AllDone_AnyDone(tasks) == \E i \in DOMAIN tasks : tasks[i].state = "done"

AllDone(tasks) == \A i \in DOMAIN tasks : tasks[i].state = "done"

InIndexOrder(order) == \A k \in DOMAIN order : order[k] = k

Init ==
    /\ g = EmptyGraph
    /\ last = NoOp
    /\ cfg \in Configurations
    /\ run = 1
    /\ pc = "start"
    /\ rng = seed_from_u64(cfg.seed)
    /\ first_result = [graph |-> EmptyGraph, in_index_order |-> FALSE]
    /\ IdleCall
    /\ call = NoCall
    /\ MiIdle
    /\ ws = NoWs

\* generate_outer_graph: the listeners, then the builder on the shared RNG
NotifyOuterGeneration ==
    /\ pc = "start"
    /\ notifications' = notify(notifications, "OuterGeneration")
    /\ pc' = "outer_build"
    /\ UNCHANGED <<gvars, qvars, mvars, wvars, outer_calls, cfg, run, rng, outer_graph, inner_seeds, inner_tasks,
                   inner_order, inner_graphs, global_graph, cumulated_n_nodes, seeds,
                   link_tasks, link_order, first_result,
                   flat_edges>>

BuildOuterGraph ==
    /\ pc = "outer_build"
    /\ LET b == OuterBuilder(cfg.outer, rng)
       IN  /\ outer_graph' = b.graph
           /\ rng' = b.rng
    /\ outer_calls' = outer_calls + 1
    /\ pc' = "inner_notify"
    /\ UNCHANGED <<gvars, qvars, mvars, wvars, cfg, run, notifications, inner_seeds, inner_tasks,
                   inner_order, inner_graphs, global_graph, cumulated_n_nodes, seeds,
                   link_tasks, link_order, first_result,
                   flat_edges>>

\* generate_inner_graphs: the listeners, the seeds, the parallel map
NotifyInnerGeneration ==
    /\ pc = "inner_notify"
    /\ notifications' = notify(notifications, "InnerGeneration")
    /\ pc' = "inner_seeds"
    /\ UNCHANGED <<gvars, qvars, mvars, wvars, outer_calls, cfg, run, rng, outer_graph, inner_seeds, inner_tasks,
                   inner_order, inner_graphs, global_graph, cumulated_n_nodes, seeds,
                   link_tasks, link_order, first_result,
                   flat_edges>>

DrawInnerSeeds ==
    /\ pc = "inner_seeds"
    /\ LET d == sample_iter_take(rng, n_nodes(outer_graph))
       IN  /\ inner_seeds' = d.values
           /\ rng' = d.rng
    /\ inner_tasks' = [i \in 1..n_nodes(outer_graph) |-> NewInnerTask]
    /\ pc' = "inner_par"
    /\ UNCHANGED <<gvars, qvars, mvars, wvars, outer_calls, cfg, run, notifications, outer_graph, inner_order,
                   inner_graphs, global_graph, cumulated_n_nodes, seeds, link_tasks,
                   link_order, first_result,
                   flat_edges>>

\* .map(|s| R::seed_from_u64(s)) on a worker thread
InnerTaskStart(i) ==
    /\ pc = "inner_par"
    /\ inner_tasks[i].state = "pending"
    /\ inner_tasks' = [inner_tasks EXCEPT ![i].state = "running",
                                          ![i].rng = TaskRng(inner_seeds, i)]
    /\ UNCHANGED <<gvars, qvars, mvars, wvars, outer_calls, cfg, run, pc, rng, notifications, outer_graph, inner_seeds,
                   inner_order, inner_graphs, global_graph, cumulated_n_nodes, seeds,
                   link_tasks, link_order, first_result,
                   flat_edges>>

\* .map(|mut r| inner_graph_builder(&mut r)) on a worker thread
InnerTaskFinish(i) ==
    /\ pc = "inner_par"
    /\ inner_tasks[i].state = "running"
    /\ inner_tasks' = [inner_tasks EXCEPT
                          ![i].state = "done",
                          ![i].graph = InnerBuilder(cfg.inner, inner_tasks[i].rng)]
    /\ inner_order' = Append(inner_order, i)
    /\ UNCHANGED <<gvars, qvars, mvars, wvars, outer_calls, cfg, run, pc, rng, notifications, outer_graph, inner_seeds,
                   inner_graphs, global_graph, cumulated_n_nodes, seeds, link_tasks,
                   link_order, first_result,
                   flat_edges>>

\* .collect() of the parallel map
CollectInnerGraphs ==
    /\ pc = "inner_par"
    /\ AllDone(inner_tasks)
    /\ inner_graphs' = Collect([i \in DOMAIN inner_tasks |-> inner_tasks[i].graph],
                               inner_order)
    /\ pc' = "compose"
    /\ UNCHANGED <<gvars, qvars, mvars, wvars, outer_calls, cfg, run, rng, notifications, outer_graph, inner_seeds,
                   inner_tasks, inner_order, global_graph, cumulated_n_nodes, seeds,
                   link_tasks, link_order, first_result,
                   flat_edges>>

\* new_inner_outer composes a first global graph, which link() does not receive
ComposeInNewInnerOuter ==
    /\ pc = "compose"
    /\ global_graph' = FoldAppend(EmptyGraph, inner_graphs, Len(inner_graphs))
    /\ pc' = "link_compose"
    /\ UNCHANGED <<gvars, qvars, mvars, wvars, outer_calls, cfg, run, rng, notifications, outer_graph, inner_seeds,
                   inner_tasks, inner_order, inner_graphs, cumulated_n_nodes, seeds,
                   link_tasks, link_order, first_result,
                   flat_edges>>

\* link: the composition and the offset table
ComposeInLink ==
    /\ pc = "link_compose"
    /\ global_graph' = FoldAppend(EmptyGraph, inner_graphs, Len(inner_graphs))
    /\ cumulated_n_nodes' = FoldCumulated(inner_graphs, Len(inner_graphs))
    /\ pc' = "link_notify"
    /\ UNCHANGED <<gvars, qvars, mvars, wvars, outer_calls, cfg, run, rng, notifications, outer_graph, inner_seeds,
                   inner_tasks, inner_order, inner_graphs, seeds, link_tasks,
                   link_order, first_result,
                   flat_edges>>

NotifyLinking ==
    /\ pc = "link_notify"
    /\ notifications' = notify(notifications, "Linking")
    /\ pc' = "link_seeds"
    /\ UNCHANGED <<gvars, qvars, mvars, wvars, outer_calls, cfg, run, rng, outer_graph, inner_seeds, inner_tasks,
                   inner_order, inner_graphs, global_graph, cumulated_n_nodes, seeds,
                   link_tasks, link_order, first_result,
                   flat_edges>>

\* add_linking_edges: one seed per raw edge of the outer graph
DrawLinkSeeds ==
    /\ pc = "link_seeds"
    /\ LET d == sample_iter_take(rng, n_edges(outer_graph))
       IN  /\ seeds' = d.values
           /\ rng' = d.rng
    /\ link_tasks' = [j \in 1..n_edges(outer_graph) |-> NewLinkTask]
    /\ pc' = "link_par"
    /\ UNCHANGED <<gvars, qvars, mvars, wvars, outer_calls, cfg, run, notifications, outer_graph, inner_seeds,
                   inner_tasks, inner_order, inner_graphs, global_graph,
                   cumulated_n_nodes, link_order, first_result,
                   flat_edges>>

\* let mut rng = R::seed_from_u64(seeds[i]) on a worker thread
LinkTaskStart(j) ==
    /\ pc = "link_par"
    /\ link_tasks[j].state = "pending"
    /\ link_tasks' = [link_tasks EXCEPT ![j].state = "running",
                                        ![j].rng = TaskRng(seeds, j)]
    /\ UNCHANGED <<gvars, qvars, mvars, wvars, outer_calls, cfg, run, pc, rng, notifications, outer_graph, inner_seeds,
                   inner_tasks, inner_order, inner_graphs, global_graph,
                   cumulated_n_nodes, seeds, link_order, first_result,
                   flat_edges>>

\* the linker call and the translation of its edges, on a worker thread
LinkTaskFinish(j) ==
    /\ pc = "link_par"
    /\ link_tasks[j].state = "running"
    /\ LET outer_edge == iter_edges(outer_graph)[j]
           h == linker_handles(outer_edge, inner_graphs)
           inter_attacks == Linker(cfg.linker, h[1].index, h[1].graph,
                                   h[2].index, h[2].graph, link_tasks[j].rng)
       IN  link_tasks' = [link_tasks EXCEPT
               ![j].state = "done",
               ![j].handles = h,
               ![j].inter_attacks = inter_attacks,
               ![j].global_edges =
                   [k \in DOMAIN inter_attacks |->
                       global_node_ids(inter_attacks[k], outer_edge, cumulated_n_nodes)]]
    /\ link_order' = Append(link_order, j)
    /\ UNCHANGED <<gvars, qvars, mvars, wvars, outer_calls, cfg, run, pc, rng, notifications, outer_graph, inner_seeds,
                   inner_tasks, inner_order, inner_graphs, global_graph,
                   cumulated_n_nodes, seeds, first_result,
                   flat_edges>>

\* the collect() of the parallel map and the flatten() of its result
CollectGlobalEdges ==
    /\ pc = "link_par"
    /\ AllDone(link_tasks)
    /\ LET all_global_edges ==
               Collect([j \in DOMAIN link_tasks |-> link_tasks[j].global_edges],
                       link_order)
       IN  flat_edges' = Flatten(all_global_edges, 1)
    /\ pc' = "insert"
    /\ UNCHANGED <<gvars, qvars, mvars, wvars, outer_calls, cfg, run, rng, notifications, outer_graph, inner_seeds,
                   inner_tasks, inner_order, inner_graphs, global_graph,
                   cumulated_n_nodes, seeds, link_tasks, link_order, first_result>>

\* one iteration of .for_each(|(from, to)| global_graph.new_edge(from, to))
InsertLinkingEdge ==
    /\ pc = "insert"
    /\ flat_edges # <<>>
    /\ global_graph' = insert_global_edge(global_graph, Head(flat_edges))
    /\ flat_edges' = Tail(flat_edges)
    /\ UNCHANGED <<gvars, qvars, mvars, wvars, outer_calls, cfg, run, pc, rng, notifications, outer_graph, inner_seeds,
                   inner_tasks, inner_order, inner_graphs, cumulated_n_nodes, seeds,
                   link_tasks, link_order, first_result>>

\* the iterator is exhausted: add_linking_edges returns global_graph
ReturnGlobalGraph ==
    /\ pc = "insert"
    /\ flat_edges = <<>>
    /\ pc' = "done"
    /\ UNCHANGED <<gvars, qvars, mvars, wvars, outer_calls, cfg, run, rng, notifications, outer_graph, inner_seeds,
                   inner_tasks, inner_order, inner_graphs, global_graph,
                   cumulated_n_nodes, seeds, link_tasks, link_order, flat_edges,
                   first_result>>

\* the generator is reusable: a second call with the same builders, the same
\* linker and an RNG built from the same seed
SecondCall ==
    /\ pc = "done"
    /\ run = 1
    /\ first_result' = [graph |-> global_graph,
                        in_index_order |-> InIndexOrder(inner_order)
                                           /\ InIndexOrder(link_order)]
    /\ run' = 2
    /\ pc' = "start"
    /\ rng' = seed_from_u64(cfg.seed)
    /\ notifications' = <<>>
    /\ outer_calls' = 0
    /\ outer_graph' = EmptyGraph
    /\ inner_seeds' = <<>>
    /\ inner_tasks' = <<>>
    /\ inner_order' = <<>>
    /\ inner_graphs' = <<>>
    /\ global_graph' = EmptyGraph
    /\ cumulated_n_nodes' = <<>>
    /\ seeds' = <<>>
    /\ link_tasks' = <<>>
    /\ link_order' = <<>>
    /\ flat_edges' = <<>>
    /\ UNCHANGED <<gvars, qvars, mvars, wvars, cfg>>

Next ==
    \/ NotifyOuterGeneration
    \/ BuildOuterGraph
    \/ NotifyInnerGeneration
    \/ DrawInnerSeeds
    \/ \E i \in DOMAIN inner_tasks : InnerTaskStart(i)
    \/ \E i \in DOMAIN inner_tasks : InnerTaskFinish(i)
    \/ CollectInnerGraphs
    \/ ComposeInNewInnerOuter
    \/ ComposeInLink
    \/ NotifyLinking
    \/ DrawLinkSeeds
    \/ \E j \in DOMAIN link_tasks : LinkTaskStart(j)
    \/ \E j \in DOMAIN link_tasks : LinkTaskFinish(j)
    \/ CollectGlobalEdges
    \/ InsertLinkingEdge
    \/ ReturnGlobalGraph
    \/ SecondCall

Spec == Init /\ [][Next]_vars

\* ------------------------------------------- parameters and registries
MaxChainLen == 4

Pending == [err |-> "pending", carried |-> <<>>, invoked |-> <<>>, values |-> <<>>]

Request(op, collection, types, input, n) ==
    [op |-> op, pos |-> "start", collection |-> collection, types |-> types,
     input |-> input, n |-> n, seed |-> 0, result |-> Pending, graph |-> EmptyGraph]

ParseRequests ==
    {Request("parse", "none", types, s, 0) : types \in TypeLists, s \in Strings(MaxLen)}

NameInputs ==
    {GENERATOR_FACTORIES[i].name : i \in DOMAIN GENERATOR_FACTORIES}
        \cup {LINKERS[i].name : i \in DOMAIN LINKERS}
        \cup {chain_name, foo_name, <<>>, <<"p", "a", "t">>}

Tails == {<<>>} \cup {<<"/">> \o ps : ps \in Strings(MaxLen)}

NamedRequests ==
    {Request("named_from_str", c, <<>>, name \o tail, 0) :
        c \in {"generators", "linkers"}, name \in NameInputs, tail \in Tails}

ChainRequests ==
    {Request("try_with_params", "generators", <<>>, <<>>, n) : n \in 0..MaxChainLen}

ParamInit ==
    /\ g = EmptyGraph
    /\ last = NoOp
    /\ cfg = NoCfg
    /\ run = 1
    /\ pc = "idle"
    /\ rng = 0
    /\ first_result = [graph |-> EmptyGraph, in_index_order |-> FALSE]
    /\ IdleCall
    /\ call \in ParseRequests \cup NamedRequests \cup ChainRequests
    /\ MiIdle
    /\ ws = NoWs

\* ParameterParser::new(types).parse(s)
PParse ==
    /\ call.op = "parse"
    /\ call.pos = "start"
    /\ call' = [call EXCEPT !.pos = "returned",
                            !.result = ParameterParser_parse(call.types, call.input)]
    /\ UNCHANGED <<gvars, pvars, mvars, wvars>>

\* directed_generator_factory_from_str(s) or directed_linker_from_str(s)
PNamedFromStr ==
    /\ call.op = "named_from_str"
    /\ call.pos = "start"
    /\ \E outcome \in {"none", "constructor"} :
          call' = [call EXCEPT !.pos = "returned",
                               !.result = named_from_str(Collection(call.collection),
                                                         call.input, outcome)]
    /\ UNCHANGED <<gvars, pvars, mvars, wvars>>

\* the chain factory's try_with_params on the single integer n
PTryWithParams ==
    /\ call.op = "try_with_params"
    /\ call.pos = "start"
    /\ call' = [call EXCEPT !.pos = "returned",
                            !.result = [err |-> "none", carried |-> <<>>,
                                        invoked |-> path_name,
                                        values |-> <<[type |-> "PositiveInteger",
                                                      num |-> call.n, den |-> 1]>>]]
    /\ UNCHANGED <<gvars, pvars, mvars, wvars>>

\* generator(&mut r): the boxed closure of the chain factory applied to an RNG
PGenerate ==
    /\ call.op \in {"named_from_str", "try_with_params"}
    /\ call.pos = "returned"
    /\ call.result.err = "none"
    /\ call.result.invoked = path_name
    /\ call.result.values[1].num <= MaxChainLen
    /\ \E seed \in 0..(RngMod - 1) :
          call' = [call EXCEPT !.pos = "generated",
                               !.seed = seed,
                               !.graph = chain(call.result.values[1].num)]
    /\ UNCHANGED <<gvars, pvars, mvars, wvars>>

ParamNext ==
    \/ PParse
    \/ PNamedFromStr
    \/ PTryWithParams
    \/ PGenerate

ParamSpec == ParamInit /\ [][ParamNext]_vars

\* ------------------------------- a call that uses a min_incoming linker
\* The outer graphs: two nodes, with one edge, two opposite edges, or one
\* edge stored twice.
MiOuterEdges ==
    { <<<<0, 1>>>>, <<<<0, 1>>, <<1, 0>>>>, <<<<0, 1>>, <<0, 1>>>> }

MiOuterNodes == {0, 1}

\* what the inner builder may return: no node; two nodes; 0 -> 1; 1 -> 0
MiInnerGraphs ==
    { EmptyGraph,
      new_node(new_node(EmptyGraph)),
      new_edge(EmptyGraph, 0, 1),
      new_edge(EmptyGraph, 1, 0) }

NewLiTask ==
    [pc |-> "lock1", arg |-> 1, v |-> <<>>, v1 |-> <<>>, v2 |-> <<>>, links |-> <<>>]

\* the handle the running compute_min_incoming call of task j received
LiIndex(j) == mi.outer[j][li[j].arg]

LiGraph(j) == mi.inner[LiIndex(j) + 1].graph

\* compute_min_incoming returns v to the linker closure of task j
LiReturn(j, v) ==
    IF li[j].arg = 1
    THEN [li EXCEPT ![j].v1 = v, ![j].arg = 2, ![j].pc = "lock1"]
    ELSE [li EXCEPT ![j].v2 = v, ![j].pc = "links"]

CacheInit ==
    /\ g = EmptyGraph
    /\ last = NoOp
    /\ cfg = NoCfg
    /\ run = 1
    /\ pc = "idle"
    /\ rng = 0
    /\ first_result = [graph |-> EmptyGraph, in_index_order |-> FALSE]
    /\ IdleCall
    /\ call = NoCall
    /\ mi \in [pc : {"start"}, run : {1}, outer : MiOuterEdges, bidirectional : BOOLEAN,
               inner : {<<>>}, prev : {<<>>}]
    /\ cache = <<>>
    /\ mutex = 0
    /\ li = <<>>
    /\ ws = NoWs

\* generate_outer_graph, then the parallel map of generate_inner_graphs starts
MiStartInner ==
    /\ mi.pc = "start"
    /\ mi' = [mi EXCEPT !.pc = "inner_par",
                        !.inner = [i \in 1..Cardinality(MiOuterNodes) |->
                                      [state |-> "pending", graph |-> EmptyGraph]]]
    /\ UNCHANGED <<gvars, pvars, qvars, wvars, cache, mutex, li>>

\* inner_graph_builder(&mut r) on a worker thread
MiBuildInner(i) ==
    /\ mi.pc = "inner_par"
    /\ mi.inner[i].state = "pending"
    /\ \E gr \in MiInnerGraphs :
          mi' = [mi EXCEPT !.inner[i] = [state |-> "done", graph |-> gr]]
    /\ UNCHANGED <<gvars, pvars, qvars, wvars, cache, mutex, li>>

\* collect(), the composition, and the start of the parallel map of
\* add_linking_edges
MiStartLinking ==
    /\ mi.pc = "inner_par"
    /\ AllDone(mi.inner)
    /\ mi' = [mi EXCEPT !.pc = "link_par"]
    /\ li' = [j \in DOMAIN mi.outer |-> NewLiTask]
    /\ UNCHANGED <<gvars, pvars, qvars, wvars, cache, mutex>>

\* let mut cache_handle = min_incoming_cache.lock().unwrap()
LiLock1(j) ==
    /\ mi.pc = "link_par"
    /\ li[j].pc = "lock1"
    /\ mutex = 0
    /\ mutex' = j
    /\ li' = [li EXCEPT ![j].pc = "section1"]
    /\ UNCHANGED <<gvars, pvars, qvars, wvars, mi, cache>>

\* the first locked section: resize, or return the cached vector, or go on
LiSection1(j) ==
    /\ mi.pc = "link_par"
    /\ li[j].pc = "section1"
    /\ IF Len(cache) <= LiIndex(j)
       THEN /\ cache' = resize(cache, LiIndex(j))
            /\ li' = [li EXCEPT ![j].pc = "drop"]
            /\ UNCHANGED mutex
       ELSE IF cache[LiIndex(j) + 1].some
       THEN /\ li' = LiReturn(j, cache[LiIndex(j) + 1].v)
            /\ mutex' = guard_at_return(mutex)
            /\ UNCHANGED cache
       ELSE /\ li' = [li EXCEPT ![j].pc = "drop"]
            /\ UNCHANGED <<cache, mutex>>
    /\ UNCHANGED <<gvars, pvars, qvars, wvars, mi>>

\* std::mem::drop(cache_handle), then the computation on the task's own data
LiDropAndCompute(j) ==
    /\ mi.pc = "link_par"
    /\ li[j].pc = "drop"
    /\ mutex' = 0
    /\ li' = [li EXCEPT ![j].pc = "lock2", ![j].v = uncached_min_incoming(LiGraph(j))]
    /\ UNCHANGED <<gvars, pvars, qvars, wvars, mi, cache>>

\* min_incoming_cache.lock().unwrap() of the final statement
LiLock2(j) ==
    /\ mi.pc = "link_par"
    /\ li[j].pc = "lock2"
    /\ mutex = 0
    /\ mutex' = j
    /\ li' = [li EXCEPT ![j].pc = "write"]
    /\ UNCHANGED <<gvars, pvars, qvars, wvars, mi, cache>>

\* [g.index()] = some_v_clone, the guard dropped at the end of the statement,
\* and the return of v; an index out of bounds panics, which ends the call
LiWrite(j) ==
    /\ mi.pc = "link_par"
    /\ li[j].pc = "write"
    /\ mutex' = 0
    /\ IF LiIndex(j) < Len(cache)
       THEN /\ cache' = [cache EXCEPT ![LiIndex(j) + 1] = Some(li[j].v)]
            /\ li' = LiReturn(j, li[j].v)
            /\ UNCHANGED mi
       ELSE /\ li' = [li EXCEPT ![j].pc = "panicked"]
            /\ mi' = [mi EXCEPT !.pc = "aborted"]
            /\ UNCHANGED cache
    /\ UNCHANGED <<gvars, pvars, qvars, wvars>>

\* the closure builds and returns links
LiLinks(j) ==
    /\ mi.pc = "link_par"
    /\ li[j].pc = "links"
    /\ li' = [li EXCEPT ![j].pc = "done",
                        ![j].links = min_incoming_links(li[j].v1, li[j].v2,
                                                        mi.bidirectional)]
    /\ UNCHANGED <<gvars, pvars, qvars, wvars, mi, cache, mutex>>

\* collect() of the parallel map; new_inner_outer returns
MiReturn ==
    /\ mi.pc = "link_par"
    /\ \A j \in DOMAIN li : li[j].pc = "done"
    /\ mi' = [mi EXCEPT !.pc = "returned"]
    /\ UNCHANGED <<gvars, pvars, qvars, wvars, cache, mutex, li>>

\* a second call with a linker of the same factory: the cache is the one the
\* first call left
MiSecondCall ==
    /\ mi.pc = "returned"
    /\ mi.run = 1
    /\ mi' = [mi EXCEPT !.pc = "start", !.run = 2, !.inner = <<>>,
                        !.prev = [i \in DOMAIN mi.inner |-> mi.inner[i].graph]]
    /\ li' = <<>>
    /\ UNCHANGED <<gvars, pvars, qvars, wvars, cache, mutex>>

MiCaller ==
    \/ MiStartInner
    \/ MiStartLinking
    \/ MiReturn

LiStep(j) ==
    \/ LiLock1(j)
    \/ LiSection1(j)
    \/ LiDropAndCompute(j)
    \/ LiLock2(j)
    \/ LiWrite(j)
    \/ LiLinks(j)

CacheNext ==
    \/ MiCaller
    \/ \E i \in DOMAIN mi.inner : MiBuildInner(i)
    \/ \E j \in DOMAIN li : LiStep(j)
    \/ MiSecondCall

CacheSpec == CacheInit /\ [][CacheNext]_vars

\* rayon runs every spawned task, and the calling thread goes on when it can
CacheFairSpec ==
    /\ CacheSpec
    /\ WF_vars(MiCaller)
    /\ \A i \in 1..Cardinality(MiOuterNodes) :
           WF_vars(i \in DOMAIN mi.inner /\ MiBuildInner(i))
    /\ \A j \in 1..2 : WF_vars(j \in DOMAIN li /\ LiStep(j))

\* ------------------------------------------ the Watts-Strogatz generator
\* the parameters the factory is given, already parsed: two usize values and
\* a probability of [0, 1]
WsInit ==
    /\ g = EmptyGraph
    /\ last = NoOp
    /\ cfg = NoCfg
    /\ run = 1
    /\ pc = "idle"
    /\ rng = 0
    /\ first_result = [graph |-> EmptyGraph, in_index_order |-> FALSE]
    /\ IdleCall
    /\ call = NoCall
    /\ MiIdle
    /\ ws \in {[NoWs EXCEPT !.pc = "start", !.n = n, !.k = k, !.p = p] :
                  n \in 0..MaxWsN, k \in 0..MaxWsK, p \in Probabilities}

\* try_with_params: k must be even and n greater than k
WsTryWithParams ==
    /\ ws.pc = "start"
    /\ ws' = [ws EXCEPT !.pc = IF ws.k % 2 = 1 THEN "rejected"
                               ELSE IF ws.n <= ws.k THEN "rejected"
                               ELSE "accepted"]
    /\ UNCHANGED <<gvars, pvars, qvars, mvars>>

\* build_graph starts: Graph::with_capacity(n, n * k)
WsBuildGraph ==
    /\ ws.pc = "accepted"
    /\ ws' = [ws EXCEPT !.pc = "lattice", !.g = with_capacity(ws.n, ws.n * ws.k),
                        !.i = 0, !.j = 0]
    /\ UNCHANGED <<gvars, pvars, qvars, mvars>>

\* g.new_edge(i, (i + j + 1) % n) of the ring lattice
WsLatticeEdge ==
    /\ ws.pc = "lattice"
    /\ ws.i < ws.n
    /\ ws.j < ws.k \div 2
    /\ ws' = [ws EXCEPT !.g = new_edge(ws.g, ws.i, (ws.i + ws.j + 1) % ws.n),
                        !.j = @ + 1]
    /\ UNCHANGED <<gvars, pvars, qvars, mvars>>

\* the next node of the first (0..n).for_each
WsLatticeNextNode ==
    /\ ws.pc = "lattice"
    /\ ws.i < ws.n
    /\ ws.j = ws.k \div 2
    /\ ws' = [ws EXCEPT !.i = @ + 1, !.j = 0]
    /\ UNCHANGED <<gvars, pvars, qvars, mvars>>

\* the two distributions, Uniform::new aborting on an empty range, and the
\* vector not_targets of node 0
WsDistributions ==
    /\ ws.pc = "lattice"
    /\ ws.i = ws.n
    /\ IF index_uniform_high(ws.n, ws.k) <= 0
       THEN ws' = [ws EXCEPT !.pc = "aborted"]
       ELSE ws' = [ws EXCEPT !.pc = "rewire", !.i = 0, !.j = 0,
                             !.not_targets = not_targets(ws.n, ws.k, 0)]
    /\ UNCHANGED <<gvars, pvars, qvars, mvars>>

\* the sample is not below p: the edge i -> (i + 1 + j) % n stays
WsKeep ==
    /\ ws.pc = "rewire"
    /\ ws.j < ws.k \div 2
    /\ FALSE \in sample_below(ws.p)
    /\ ws' = [ws EXCEPT !.j = @ + 1]
    /\ UNCHANGED <<gvars, pvars, qvars, mvars>>

\* the sample is below p and index_uniform gives index: the edge is rewired
WsRewire(index) ==
    /\ ws.pc = "rewire"
    /\ ws.j < ws.k \div 2
    /\ TRUE \in sample_below(ws.p)
    /\ ws.rewired < MaxRewires
    /\ LET new_target == ws.not_targets[index + 1]
           old_target == (ws.i + 1 + ws.j) % ws.n
           nt == swap_in(ws.not_targets, index, old_target)
           step == [i |-> ws.i, old_target |-> old_target, new_target |-> new_target,
                    pre |-> ws.g]
       IN  IF find_edge(ws.g, ws.i, old_target)
           THEN ws' = [ws EXCEPT !.g = new_edge(remove_edge(ws.g, ws.i, old_target),
                                                ws.i, new_target),
                                 !.not_targets = nt, !.j = @ + 1, !.rewired = @ + 1,
                                 !.last = step]
           ELSE ws' = [ws EXCEPT !.pc = "aborted", !.not_targets = nt, !.last = step]
    /\ UNCHANGED <<gvars, pvars, qvars, mvars>>

\* the next node of (0..n).for_each
WsNextNode ==
    /\ ws.pc = "rewire"
    /\ ws.j = ws.k \div 2
    /\ ws.i + 1 < ws.n
    /\ ws' = [ws EXCEPT !.i = @ + 1, !.j = 0,
                        !.not_targets = not_targets(ws.n, ws.k, ws.i + 1)]
    /\ UNCHANGED <<gvars, pvars, qvars, mvars>>

\* build_graph returns g
WsReturn ==
    /\ ws.pc = "rewire"
    /\ ws.j = ws.k \div 2
    /\ ws.i + 1 = ws.n
    /\ ws' = [ws EXCEPT !.pc = "returned"]
    /\ UNCHANGED <<gvars, pvars, qvars, mvars>>

WsNext ==
    \/ WsTryWithParams
    \/ WsBuildGraph
    \/ WsLatticeEdge
    \/ WsLatticeNextNode
    \/ WsDistributions
    \/ WsKeep
    \/ \E index \in 0..(index_uniform_high(ws.n, ws.k) - 1) : WsRewire(index)
    \/ WsNextNode
    \/ WsReturn

WsSpec == WsInit /\ [][WsNext]_vars

\* ------------------------------------------------- properties of the Graph
Shift(e, k) == <<e[1] + k, e[2] + k>>

NoDup(s) == \A i, j \in DOMAIN s : s[i] = s[j] => i = j

\* C7: Graph::new_edge(from,to) unconditionally appends the edge: after every
\* call n_edges() is exactly one more than before, also when (from,to) is
\* already an edge of the graph.
C7_NewEdgeAlwaysAppends ==
    last.op = "new_edge" => n_edges(g) = n_edges(last.pre) + 1

\* C8: new_edge(from,to) on a graph with k nodes leaves exactly
\* max(k, max(from,to)+1) nodes: every missing node up to max(from,to) is
\* created, and the count is unchanged when both endpoints exist.
C8_NewEdgeNodeCount ==
    last.op = "new_edge" =>
        n_nodes(g) = Max(n_nodes(last.pre), Max(last.from, last.to) + 1)

\* a new_edge call that had to create more than one node
C8_Witness ==
    /\ last.op = "new_edge"
    /\ Max(last.from, last.to) > n_nodes(last.pre)
    /\ n_nodes(g) = Max(last.from, last.to) + 1

C10_GraphWellFormed ==
    /\ n_nodes(g) \in Nat
    /\ \A i \in DOMAIN g.edges :
           /\ g.edges[i][1] \in 0..(n_nodes(g) - 1)
           /\ g.edges[i][2] \in 0..(n_nodes(g) - 1)
    /\ last.op \in {"new_node", "new_edge", "append_graph"} =>
           n_nodes(g) >= n_nodes(last.pre)

\* an edge insertion that extended the node range of a non-empty graph
C10_Witness ==
    /\ last.op = "new_edge"
    /\ n_nodes(last.pre) > 0
    /\ n_nodes(g) > n_nodes(last.pre)
    /\ n_edges(g) > 1

\* the edges a call inserts, in the order of insertion
InsertedBy(op) ==
    CASE op.op = "new_edge" -> <<<<op.from, op.to>>>>
      [] op.op = "append_graph" ->
            [i \in DOMAIN op.other.edges |-> Shift(op.other.edges[i], op.pre.n)]
      [] OTHER -> <<>>

\* C11: iter_edges() yields exactly n_edges() pairs, the edges in the order
\* in which new_edge and append_graph inserted them, duplicates included:
\* after each call the sequence is the former one followed by the edges the
\* call inserted, and iterating changes nothing.
C11_IterEdgesInsertionOrder ==
    /\ Len(iter_edges(g)) = n_edges(g)
    /\ last.op \in {"new_node", "new_edge", "append_graph"} =>
           iter_edges(g) = iter_edges(last.pre) \o InsertedBy(last)
    /\ last.op = "iter_edges" =>
           /\ g = last.pre
           /\ last.other.edges = iter_edges(g)
           /\ last.other.n = n_edges(g)

\* ------------------------------------------- properties of the generator
NumOuterNodes == n_nodes(outer_graph)

NumOuterEdges == n_edges(outer_graph)

RECURSIVE SumNodes(_, _)
SumNodes(graphs, k) == IF k = 0 THEN 0 ELSE SumNodes(graphs, k - 1) + n_nodes(graphs[k])

\* a local index is in range when it names a node of its own inner graph:
\* FirstToSecond(x, y) has x in the first graph and y in the second,
\* SecondToFirst(x, y) has x in the second graph and y in the first
InRange(e, ga, gb) ==
    IF e.tag = "FirstToSecond"
    THEN e.x < n_nodes(ga) /\ e.y < n_nodes(gb)
    ELSE e.x < n_nodes(gb) /\ e.y < n_nodes(ga)

LinkerOutputsInRange ==
    \A j \in DOMAIN link_tasks :
        \A k \in DOMAIN link_tasks[j].inter_attacks :
            InRange(link_tasks[j].inter_attacks[k],
                    inner_graphs[iter_edges(outer_graph)[j][1] + 1],
                    inner_graphs[iter_edges(outer_graph)[j][2] + 1])

\* C1: when every local index the linker emitted is in range, the returned
\* graph has exactly sum_i n_nodes(g_i) nodes, the offset table entry of
\* outer node i is the prefix sum of the node counts of g_0 .. g_{i-1}, and
\* every edge (s,t) of g_i appears as (s+off_i, t+off_i).
C1_Composition ==
    (pc = "done" /\ LinkerOutputsInRange) =>
        /\ n_nodes(global_graph) = SumNodes(inner_graphs, Len(inner_graphs))
        /\ \A i \in DOMAIN inner_graphs :
               /\ cumulated_n_nodes[i] = SumNodes(inner_graphs, i - 1)
               /\ \A k \in DOMAIN inner_graphs[i].edges :
                      Shift(inner_graphs[i].edges[k], SumNodes(inner_graphs, i - 1))
                          \in Range(iter_edges(global_graph))

\* the translation the claim states, offset[a] being cum[a + 1]
ClaimedGlobalEdge(e, outer_edge, cum) ==
    IF e.tag = "FirstToSecond"
    THEN <<cum[outer_edge[1] + 1] + e.x, cum[outer_edge[2] + 1] + e.y>>
    ELSE <<cum[outer_edge[2] + 1] + e.x, cum[outer_edge[1] + 1] + e.y>>

\* C2: for every outer edge (a,b) and every edge its linker call returned,
\* the global edge is (offset[a]+x, offset[b]+y) for FirstToSecond(x,y) and
\* (offset[b]+x, offset[a]+y) for SecondToFirst(x,y).
C2_Translation ==
    \A j \in DOMAIN link_tasks :
        link_tasks[j].state = "done" =>
            \A k \in DOMAIN link_tasks[j].inter_attacks :
                link_tasks[j].global_edges[k] =
                    ClaimedGlobalEdge(link_tasks[j].inter_attacks[k],
                                      iter_edges(outer_graph)[j], cumulated_n_nodes)

Count(es, e) == Cardinality({i \in DOMAIN es : es[i] = e})

SameEdgeMultiset(g1, g2) ==
    \A e \in Range(g1.edges) \cup Range(g2.edges) : Count(g1.edges, e) = Count(g2.edges, e)

\* C3: two calls with the same initial seed, builders and linker return graphs
\* with the same node count and the same edge multiset, whatever the order
\* in which the parallel tasks of either call ran and completed.
C3_Deterministic ==
    (run = 2 /\ pc = "done") =>
        /\ n_nodes(global_graph) = n_nodes(first_result.graph)
        /\ SameEdgeMultiset(global_graph, first_result.graph)

\* the first call's tasks completed in index order, the second call's inner
\* and linker tasks did not, and the inner graphs depend on their seeds
C3_Witness ==
    /\ run = 2
    /\ pc = "done"
    /\ first_result.in_index_order
    /\ ~InIndexOrder(inner_order)
    /\ ~InIndexOrder(link_order)
    /\ cfg.inner = "rand_chain"
    /\ cfg.linker = "random_bi_half"
    /\ \E i, j \in DOMAIN inner_graphs : inner_graphs[i] # inner_graphs[j]
    /\ n_edges(global_graph) > 0

\* the shared RNG at the start of the call and after the outer builder
InitialRng == seed_from_u64(cfg.seed)

RngAfterOuter == OuterBuilder(cfg.outer, InitialRng).rng

\* C4: the shared RNG is drawn from on the calling thread only: exactly N
\* seeds before any inner task starts and exactly E seeds, one per outer edge
\* in storage order, before any linker task starts; it does not move while
\* tasks run; task i owns an RNG seeded with the i-th seed of its phase.
C4_SeedPartition ==
    LET innerDraw == sample_iter_take(RngAfterOuter, NumOuterNodes)
        linkDraw == sample_iter_take(innerDraw.rng, NumOuterEdges)
    IN  /\ pc = "inner_par" =>
               /\ Len(inner_seeds) = NumOuterNodes
               /\ inner_seeds = innerDraw.values
               /\ rng = nth_state(RngAfterOuter, NumOuterNodes)
               /\ DOMAIN inner_tasks = 1..NumOuterNodes
               /\ \A i \in DOMAIN inner_tasks :
                      inner_tasks[i].state # "pending" =>
                          inner_tasks[i].rng = seed_from_u64(innerDraw.values[i])
        /\ pc = "link_par" =>
               /\ Len(seeds) = NumOuterEdges
               /\ seeds = linkDraw.values
               /\ rng = nth_state(RngAfterOuter, NumOuterNodes + NumOuterEdges)
               /\ DOMAIN link_tasks = 1..NumOuterEdges
               /\ \A j \in DOMAIN link_tasks :
                      link_tasks[j].state # "pending" =>
                          link_tasks[j].rng = seed_from_u64(linkDraw.values[j])
        /\ pc \notin {"inner_par", "link_par"} =>
               /\ \A i \in DOMAIN inner_tasks : inner_tasks[i].state = "done"
               /\ \A j \in DOMAIN link_tasks : link_tasks[j].state = "done"

\* two linker tasks run at once, started out of index order, on an outer
\* graph whose builder drew from the shared RNG
C4_Witness ==
    /\ pc = "link_par"
    /\ cfg.outer = "rand"
    /\ NumOuterEdges = 3
    /\ link_tasks[3].state = "running"
    /\ link_tasks[2].state = "running"
    /\ link_tasks[1].state = "pending"
    /\ seeds[2] # seeds[3]

GenerationSteps == <<"OuterGeneration", "InnerGeneration", "Linking">>

\* the steps the listeners were told about when the calling thread is at pc
StepsDelivered ==
    CASE pc \in {"idle", "start"} -> 0
      [] pc \in {"outer_build", "inner_notify"} -> 1
      [] pc \in {"inner_seeds", "inner_par", "compose", "link_compose", "link_notify"} -> 2
      [] pc \in {"link_seeds", "link_par", "insert", "done"} -> 3

\* C5: every listener receives exactly three notifications per call, in the
\* order OuterGeneration, InnerGeneration, Linking: the first before the outer
\* builder runs, the second before any inner seed is drawn, the third before
\* any link seed is drawn, and none while a parallel task runs.
C5_Notifications ==
    notifications =
        [k \in 1..(StepsDelivered * NumListeners) |->
            <<((k - 1) % NumListeners) + 1,
              GenerationSteps[((k - 1) \div NumListeners) + 1]>>]

\* a finished call with every listener told three times
C5_Witness ==
    /\ pc = "done"
    /\ NumListeners > 1
    /\ Len(notifications) = 3 * NumListeners
    /\ notifications[Len(notifications)] = <<NumListeners, "Linking">>

\* C6: all inner tasks have completed before the composition starts and the
\* composition has completed before the first linker task starts: a linker
\* call sees complete inner graphs and a complete offset table.
C6_Barriers ==
    /\ pc \in {"compose", "link_compose", "link_notify", "link_seeds", "link_par",
              "insert", "done"} =>
           /\ Len(inner_graphs) = NumOuterNodes
           /\ \A i \in DOMAIN inner_tasks :
                  /\ inner_tasks[i].state = "done"
                  /\ inner_graphs[i] = InnerBuilder(cfg.inner, seed_from_u64(inner_seeds[i]))
    /\ (\E j \in DOMAIN link_tasks : link_tasks[j].state # "pending") =>
           /\ pc \in {"link_par", "insert", "done"}
           /\ global_graph.n >= SumNodes(inner_graphs, Len(inner_graphs))
           /\ Len(cumulated_n_nodes) = NumOuterNodes + 1
           /\ \A i \in 1..(NumOuterNodes + 1) :
                  cumulated_n_nodes[i] = SumNodes(inner_graphs, i - 1)

\* a linker task runs while another has not started, after inner tasks that
\* completed out of index order
C6_Witness ==
    /\ pc = "link_par"
    /\ ~InIndexOrder(inner_order)
    /\ \E j \in DOMAIN link_tasks : link_tasks[j].state = "running"
    /\ \E j \in DOMAIN link_tasks : link_tasks[j].state = "pending"

RECURSIVE SumEdges(_, _)
SumEdges(graphs, k) == IF k = 0 THEN 0 ELSE SumEdges(graphs, k - 1) + n_edges(graphs[k])

\* the number of InterGraphEdge values returned by the first k linker calls
RECURSIVE SumInterEdges(_, _)
SumInterEdges(tasks, k) ==
    IF k = 0 THEN 0 ELSE SumInterEdges(tasks, k - 1) + Len(tasks[k].inter_attacks)

\* C12: the returned graph has exactly sum_i n_edges(g_i) edges plus one edge
\* per InterGraphEdge value returned by the linker calls, also when a
\* translated pair equals an edge already present.
C12_EdgeCount ==
    pc = "done" =>
        n_edges(global_graph) =
            SumEdges(inner_graphs, Len(inner_graphs))
                + SumInterEdges(link_tasks, Len(link_tasks))

\* every translated linker edge, in outer-edge order
AllGlobalEdges == Flatten([j \in DOMAIN link_tasks |-> link_tasks[j].global_edges], 1)

\* a linker edge with a local index that is not a node of the inner graphs
\* it was emitted for
OutOfRangeEmitted(j, k) ==
    LET e == link_tasks[j].inter_attacks[k]
        a == iter_edges(outer_graph)[j][1]
        b == iter_edges(outer_graph)[j][2]
    IN  \/ e.x >= Max(n_nodes(inner_graphs[a + 1]), n_nodes(inner_graphs[b + 1]))
        \/ e.y >= Max(n_nodes(inner_graphs[a + 1]), n_nodes(inner_graphs[b + 1]))

\* 1 + the largest endpoint of the edges es, 0 when there is none
RECURSIVE NodesNeeded(_, _)
NodesNeeded(es, k) ==
    IF k = 0 THEN 0 ELSE Max(NodesNeeded(es, k - 1), Max(es[k][1], es[k][2]) + 1)

\* C13: a local index outside its inner graph's node range raises no error:
\* the call returns, every translated edge (an offset plus each local index)
\* is an edge of the result, and the node range has grown exactly as far as
\* the endpoints that did not exist require.
C13_OutOfRangeGrows ==
    pc = "done" =>
        /\ \A j \in DOMAIN link_tasks :
               /\ link_tasks[j].state = "done"
               /\ \A k \in DOMAIN link_tasks[j].inter_attacks :
                      LET e == link_tasks[j].inter_attacks[k]
                          t == link_tasks[j].global_edges[k]
                          a == iter_edges(outer_graph)[j][1]
                          b == iter_edges(outer_graph)[j][2]
                      IN  /\ t \in Range(iter_edges(global_graph))
                          /\ t[1] < n_nodes(global_graph)
                          /\ t[2] < n_nodes(global_graph)
                          /\ \E u \in {e.x, e.y}, v \in {e.x, e.y} :
                                 /\ {u, v} = {e.x, e.y}
                                 /\ {t[1], t[2]} = {cumulated_n_nodes[a + 1] + u,
                                                    cumulated_n_nodes[b + 1] + v}
        /\ n_nodes(global_graph) =
               Max(SumNodes(inner_graphs, Len(inner_graphs)),
                   NodesNeeded(AllGlobalEdges, Len(AllGlobalEdges)))

\* the first linker was applied to an empty inner graph and the call
\* returned a graph with more nodes than the inner graphs have together
C13_Witness ==
    /\ pc = "done"
    /\ cfg.linker = "first"
    /\ \E i \in DOMAIN inner_graphs : n_nodes(inner_graphs[i]) = 0
    /\ \E j \in DOMAIN link_tasks :
           \E k \in DOMAIN link_tasks[j].inter_attacks : OutOfRangeEmitted(j, k)
    /\ n_nodes(global_graph) > SumNodes(inner_graphs, Len(inner_graphs))

\* the chain length of a chain builder kind, 0 for the other kinds
ChainLength(kind) ==
    CASE kind = "chain1" -> 1
      [] kind = "chain2" -> 2
      [] kind = "chain3" -> 3
      [] OTHER -> 0

\* the edges claimed for outer = chain(m), inner = chain(k), linker = first
ChainOfChainsEdges(m, k) ==
    {<<i * k + j, i * k + j + 1>> : i \in 0..(m - 1), j \in 0..(k - 2)}
        \cup {<<i * k, (i + 1) * k>> : i \in 0..(m - 2)}

\* C14: outer = chain(m), inner = chain(k) with k >= 1 and the first linker
\* give m*k nodes and exactly the edges (i*k+j, i*k+j+1) and (i*k, (i+1)*k);
\* for m = 2, k = 3: 6 nodes and {(0,1),(1,2),(0,3),(3,4),(4,5)}.
C14_ChainOfChains ==
    LET m == ChainLength(cfg.outer)
        k == ChainLength(cfg.inner)
    IN  (pc = "done" /\ m >= 1 /\ k >= 1 /\ cfg.linker = "first") =>
            /\ n_nodes(global_graph) = m * k
            /\ Range(iter_edges(global_graph)) = ChainOfChainsEdges(m, k)
            /\ n_edges(global_graph) = Cardinality(ChainOfChainsEdges(m, k))
            /\ (m = 2 /\ k = 3) =>
                   /\ n_nodes(global_graph) = 6
                   /\ Range(iter_edges(global_graph)) =
                          {<<0, 1>>, <<1, 2>>, <<0, 3>>, <<3, 4>>, <<4, 5>>}

\* three chains of three nodes linked in a chain: the third offset is used
C14_Witness ==
    /\ pc = "done"
    /\ cfg.outer = "chain3"
    /\ cfg.inner = "chain3"
    /\ cfg.linker = "first"
    /\ <<3, 6>> \in Range(iter_edges(global_graph))
    /\ n_edges(global_graph) = 8

\* the number of comma-separated tokens of a string, 0 for the empty string
TokenCount(s) == IF s = <<>> THEN 0 ELSE Cardinality(Positions(s, ",")) + 1

\* C15: ParameterParser::parse fails with an arity error whenever the number
\* of comma-separated tokens (0 for the empty input) differs from the number
\* of declared types, whatever the tokens contain.
C15_ArityError ==
    (call.op = "parse" /\ call.pos = "returned"
        /\ TokenCount(call.input) # Len(call.types)) =>
        /\ call.result.err = "arity"
        /\ call.result.expected = Len(call.types)
        /\ call.result.got = TokenCount(call.input)

\* two tokens that parse as nothing, one declared type
C15_Witness ==
    /\ call.op = "parse"
    /\ call.pos = "returned"
    /\ call.input = <<"a", ",", "-">>
    /\ call.types = <<"Probability">>
    /\ call.result.err = "arity"

\* token i of s does not denote a value of type t
Unacceptable(t, tok) ==
    IF t = "PositiveInteger"
    THEN ~parse_usize(tok).ok
    ELSE LET p == parse_f64(tok)
         IN  \/ ~p.ok
             \/ p.num > p.den
             \/ (p.neg /\ p.num > 0)

\* C16: when the count matches, parse fails with a type error iff some token
\* does not parse as its declared type or a Probability lies outside [0, 1];
\* the bounds 0 and 1 are accepted.
C16_TypeError ==
    (call.op = "parse" /\ call.pos = "returned"
        /\ TokenCount(call.input) = Len(call.types)) =>
        LET toks == split(call.input, ",")
        IN  /\ call.result.err \in {"positive_integer", "probability"}
                <=> \E i \in DOMAIN call.types : Unacceptable(call.types[i], toks[i])
            /\ call.result.err \in {"none", "positive_integer", "probability"}
            /\ (call.types = <<"Probability">> /\ call.input \in {<<"0">>, <<"1">>})
                   => call.result.err = "none"

\* the first token is the upper bound, accepted; the second lies above it
C16_Witness ==
    /\ call.op = "parse"
    /\ call.pos = "returned"
    /\ call.types = <<"Probability", "Probability">>
    /\ call.input = <<"1", ",", "3">>
    /\ call.result.err = "probability"

\* C17: on success parse returns one ParameterValue per declared type,
\* positionally matched in variant and value; the empty input with the empty
\* type list gives the empty vector.
C17_Values ==
    (call.op = "parse" /\ call.pos = "returned" /\ call.result.err = "none") =>
        LET toks == split(call.input, ",")
            vals == call.result.values
        IN  /\ Len(vals) = Len(call.types)
            /\ \A i \in DOMAIN vals :
                  /\ vals[i].type = call.types[i]
                  /\ vals[i].type = "PositiveInteger" =>
                         /\ vals[i].den = 1
                         /\ vals[i].num = parse_usize(toks[i]).value
                  /\ vals[i].type = "Probability" =>
                         vals[i].num * parse_f64(toks[i]).den
                             = parse_f64(toks[i]).num * vals[i].den
            /\ (call.input = <<>>) => vals = <<>>
            /\ (call.input = <<"3", ",", "1">>
                    /\ call.types = <<"PositiveInteger", "Probability">>)
                   => /\ vals[1] = [type |-> "PositiveInteger", num |-> 3, den |-> 1]
                      /\ vals[2].type = "Probability" /\ vals[2].num = vals[2].den
            /\ (call.input = <<".", "3">>) => 10 * vals[1].num = 3 * vals[1].den

\* an integer then a probability, each parsed as its own type
C17_Witness ==
    /\ call.op = "parse"
    /\ call.pos = "returned"
    /\ call.input = <<"3", ",", "1">>
    /\ call.types = <<"PositiveInteger", "Probability">>
    /\ call.result.err = "none"
    /\ Len(call.result.values) = 2

\* the part of s before its first '/', or s when it has none
NamePart(s) ==
    IF \E i \in DOMAIN s : s[i] = "/"
    THEN SubSeq(s, 1, (CHOOSE i \in DOMAIN s :
                          s[i] = "/" /\ \A j \in 1..(i - 1) : s[j] # "/") - 1)
    ELSE s

RegisteredNames(c) == {Collection(c)[i].name : i \in DOMAIN Collection(c)}

\* C18: resolving a string whose name part (before the first '/', or the
\* whole string) is no registered plugin fails with a not-found error that
\* carries the whole raw string, whatever the parameters; no constructor is
\* invoked.
C18_NotFound ==
    (call.op = "named_from_str" /\ call.pos = "returned"
        /\ NamePart(call.input) \notin RegisteredNames(call.collection)) =>
        /\ call.result.err = "unknown"
        /\ call.result.carried = call.input
        /\ call.result.invoked = <<>>

\* an unregistered name followed by parameters that are not even well formed
C18_Witness ==
    /\ call.op = "named_from_str"
    /\ call.pos = "returned"
    /\ call.collection = "generators"
    /\ call.input = foo_name \o <<"/", "a", ",", "/">>
    /\ call.result.err = "unknown"

\* the path graph of three nodes
Path3 == [n |-> 3, edges |-> <<<<0, 1>>, <<1, 2>>>>]

\* C19: in the generator registry "chain/3" succeeds and yields a 3-node
\* path, and "chain" fails with an arity error, not a not-found error.
C19_ChainResolves ==
    (call.op = "named_from_str" /\ call.collection = "generators"
        /\ call.pos \in {"returned", "generated"}) =>
        /\ (call.input = chain_name \o <<"/", "3">>) =>
               /\ call.result.err = "none"
               /\ call.pos = "generated" =>
                      /\ n_nodes(call.graph) = 3
                      /\ iter_edges(call.graph) = Path3.edges
        /\ (call.input = chain_name) => call.result.err = "arity"

\* what the registry does under the name it has: "path/3" yields the 3-node path
C19_PathWitness ==
    /\ call.op = "named_from_str"
    /\ call.collection = "generators"
    /\ call.pos = "generated"
    /\ call.input = path_name \o <<"/", "3">>
    /\ n_nodes(call.graph) = 3
    /\ iter_edges(call.graph) = Path3.edges

\* C20: the chain generator with parameter n >= 0 yields n nodes and
\* max(n-1, 0) edges (0,1), ..., (n-2, n-1) in this order, for any RNG.
C20_ChainGenerator ==
    (call.op = "try_with_params" /\ call.pos = "generated") =>
        /\ n_nodes(call.graph) = call.n
        /\ n_edges(call.graph) = Max(call.n - 1, 0)
        /\ iter_edges(call.graph) = [i \in 1..(call.n - 1) |-> <<i - 1, i>>]

\* the longest chain, generated with the last seed
C20_Witness ==
    /\ call.op = "try_with_params"
    /\ call.pos = "generated"
    /\ call.seed = RngMod - 1
    /\ call.n = MaxChainLen
    /\ n_edges(call.graph) = MaxChainLen - 1

\* some worker task of the parallel region is between its start and its end
SomeTaskRunning ==
    \/ \E i \in DOMAIN inner_tasks : inner_tasks[i].state = "running"
    \/ \E j \in DOMAIN link_tasks : link_tasks[j].state = "running"

\* the inner graphs that a step changes, by the task that holds them
ChangedInnerTaskGraphs ==
    {i \in DOMAIN inner_tasks :
        i \notin DOMAIN inner_tasks' \/ inner_tasks'[i].graph # inner_tasks[i].graph}

\* C22: during new_inner_outer no Graph is mutated by two threads at once:
\* an inner graph is written only by the step of the one task that builds it,
\* the outer graph and the inner graphs are not written during linking, and
\* the composed graph is written only by the calling thread, outside the two
\* parallel regions (no worker task is running then).
C22_ExclusiveMutation ==
    [][ /\ (pc = "inner_par" /\ pc' = "inner_par") =>
              /\ Cardinality(ChangedInnerTaskGraphs) <= 1
              /\ \A i \in ChangedInnerTaskGraphs :
                     /\ inner_tasks[i].state = "running"
                     /\ inner_tasks'[i].state = "done"
              /\ UNCHANGED <<outer_graph, global_graph>>
        /\ (pc = "link_par") =>
              UNCHANGED <<outer_graph, inner_graphs, global_graph>>
        /\ (global_graph' # global_graph) =>
              /\ pc \in {"compose", "link_compose", "insert", "done"}
              /\ ~SomeTaskRunning
        /\ (outer_graph' # outer_graph) =>
              /\ pc \in {"outer_build", "done"}
              /\ ~SomeTaskRunning
      ]_vars

\* two inner tasks build their graphs at the same time
C22_Witness ==
    /\ pc = "inner_par"
    /\ \E i, j \in DOMAIN inner_tasks :
          /\ i # j
          /\ inner_tasks[i].state = "running"
          /\ inner_tasks[j].state = "running"

\* order lists each of 1..n exactly once
OncePerIndex(order, n) ==
    /\ Len(order) = n
    /\ Range(order) = 1..n

\* C23: in one call the outer builder is invoked exactly once, the inner
\* builder exactly once per outer node and the linker exactly once per outer
\* edge instance (repeated edges and self-loops included); the call for the
\* outer edge (a, b) receives (a, inner graph a) and (b, inner graph b).
C23_InvocationCounts ==
    /\ outer_calls <= 1
    /\ Len(inner_order) <= n_nodes(outer_graph)
    /\ Len(link_order) <= Len(outer_graph.edges)
    /\ pc \notin {"idle", "start", "outer_build"} => outer_calls = 1
    /\ pc \in {"compose", "link_compose", "link_notify", "link_seeds", "link_par",
              "insert", "done"} =>
           OncePerIndex(inner_order, n_nodes(outer_graph))
    /\ pc \in {"insert", "done"} =>
           /\ OncePerIndex(link_order, Len(outer_graph.edges))
           /\ \A j \in DOMAIN link_tasks :
                 LET a == outer_graph.edges[j][1]
                     b == outer_graph.edges[j][2]
                 IN  link_tasks[j].handles =
                         << [index |-> a, graph |-> inner_tasks[a + 1].graph],
                            [index |-> b, graph |-> inner_tasks[b + 1].graph] >>

\* the outer graph holds the edge (0,1) twice and the linker ran for both
C23_Witness ==
    /\ pc = "done"
    /\ cfg.outer = "wrapped"
    /\ outer_graph.edges = <<<<0, 1>>, <<0, 1>>>>
    /\ Len(link_order) = 2
    /\ link_tasks[1].handles = link_tasks[2].handles
    /\ link_tasks[1].handles[1].index = 0
    /\ link_tasks[1].handles[2].index = 1

\* the edges of the inner graphs, shifted to global indices, in outer-node order
AllInnerEdges ==
    Flatten([i \in DOMAIN inner_tasks |->
                [k \in DOMAIN inner_tasks[i].graph.edges |->
                    Shift(inner_tasks[i].graph.edges[k],
                          SumNodes([n \in DOMAIN inner_tasks |-> inner_tasks[n].graph],
                                   i - 1))]], 1)

\* C24: the edge sequence of the returned graph is the edges of the inner
\* graphs in outer-node order, then the linking edges in outer-edge storage
\* order and, for one outer edge, in the order the linker returned them; it
\* does not depend on the order in which the parallel tasks complete.
C24_EdgeSequence ==
    pc = "done" =>
        /\ iter_edges(global_graph) = AllInnerEdges \o AllGlobalEdges
        /\ run = 2 => iter_edges(global_graph) = iter_edges(first_result.graph)

\* what holds of the sequence: the inner edges, then the linking edges that
\* are not yet in the graph when their turn comes, whatever the completion order
C24_SequenceWitness ==
    /\ pc = "done"
    /\ run = 2
    /\ ~InIndexOrder(link_order)
    /\ iter_edges(global_graph) = iter_edges(first_result.graph)
    /\ Len(iter_edges(global_graph)) < Len(AllInnerEdges \o AllGlobalEdges)
    /\ SubSeq(iter_edges(global_graph), 1, Len(AllInnerEdges)) = AllInnerEdges

\* ------------------------------------ properties of the min_incoming cache
InDegree(gr, n) == Cardinality({k \in DOMAIN gr.edges : gr.edges[k][2] = n})

\* the nodes of minimal in-degree
MinInDegreeSet(gr) ==
    {n \in 0..(gr.n - 1) : \A m \in 0..(gr.n - 1) : InDegree(gr, n) <= InDegree(gr, m)}

\* the elements of a set of numbers, ascending
Ascending(S) ==
    CHOOSE sq \in [1..Cardinality(S) -> S] :
        \A a, b \in 1..Cardinality(S) : a < b => sq[a] < sq[b]

\* the vector an uncached computation gives for gr
MinIncoming(gr) == Ascending(MinInDegreeSet(gr))

\* the graph presented under outer node a in the running call
MiInner(a) == mi.inner[a + 1].graph

\* C21: under any interleaving of the compute_min_incoming calls of one run
\* (two tasks missing the cache for the same inner graph included), every call
\* for index i returns the vector of an uncached computation on inner graph i,
\* and every filled cache slot holds exactly that vector.
C21_IdempotentRace ==
    (mi.pc \in {"link_par", "returned"}) =>
        /\ \A j \in DOMAIN li :
              /\ (li[j].arg = 2) => li[j].v1 = MinIncoming(MiInner(mi.outer[j][1]))
              /\ (li[j].pc \in {"links", "done"}) =>
                     li[j].v2 = MinIncoming(MiInner(mi.outer[j][2]))
        /\ \A k \in DOMAIN cache :
              (k \in DOMAIN mi.inner /\ cache[k].some) =>
                  cache[k].v = MinIncoming(mi.inner[k].graph)

\* what holds in a call that starts on the empty cache: two tasks missed the
\* cache for the same index, both computed, and the slot holds the vector
C21_FirstCallWitness ==
    /\ mi.run = 1
    /\ mi.pc = "link_par"
    /\ mi.outer = <<<<0, 1>>, <<0, 1>>>>
    /\ li[1].pc = "lock2" /\ li[1].arg = 2
    /\ li[2].pc = "lock2" /\ li[2].arg = 2
    /\ cache[1] = Some(MinIncoming(MiInner(0)))
    /\ Len(MinIncoming(MiInner(0))) = 2

\* the tasks that are past the first locked section of a compute_min_incoming
\* call and have not yet done its final write
PastFirstSection == {j \in DOMAIN li : li[j].pc \in {"drop", "lock2", "write"}}

\* C29: the final write cache[g.index()] is never out of bounds: once the first
\* locked section of a call for an index has run the cache has at least
\* 1 + index slots, and the length of the cache never decreases.
C29_WriteInBounds ==
    /\ [](/\ mi.pc # "aborted"
          /\ \A j \in DOMAIN li : li[j].pc # "panicked"
          /\ \A j \in PastFirstSection : Len(cache) >= 1 + LiIndex(j))
    /\ [][Len(cache') >= Len(cache)]_vars

\* a task is about to write slot 1, which the first section of its call made
C29_Witness ==
    /\ mi.pc = "link_par"
    /\ \E j \in DOMAIN li :
          /\ li[j].pc = "write"
          /\ LiIndex(j) = 1
          /\ Len(cache) = 2
          /\ cache[2] = None

\* the task that holds the lock is inside one of the two locked sections: it
\* is neither attempting an acquisition nor recomputing a vector
HolderInLockedSection ==
    mutex # 0 =>
        /\ mi.pc = "link_par"
        /\ mutex \in DOMAIN li
        /\ li[mutex].pc \in {"section1", "drop", "write"}

\* C25: with builders and a linker that always return and a fair scheduler,
\* every new_inner_outer call eventually returns; the lock of the min_incoming
\* cache is never held while its holder attempts another acquisition, and it
\* is released before the recomputation, so the cache never deadlocks.
C25_Termination ==
    /\ []HolderInLockedSection
    /\ (mi.pc = "start") ~> (mi.pc = "returned")

\* a task waits for the lock that the other task holds in its first section
C25_Witness ==
    /\ mi.pc = "link_par"
    /\ DOMAIN li = 1..2
    /\ li[1].pc = "lock2"
    /\ li[2].pc = "section1"
    /\ mutex = 2

\* for every n1 of v1 in order and every n2 of v2 in order: FirstToSecond(n1, n2),
\* and right after it SecondToFirst(n2, n1) when bidirectional
LinksOver(v1, v2, bidirectional) ==
    Flatten([a \in 1..Len(v1) |->
                Flatten([b \in 1..Len(v2) |->
                            IF bidirectional
                            THEN <<FirstToSecond(v1[a], v2[b]), SecondToFirst(v2[b], v1[a])>>
                            ELSE <<FirstToSecond(v1[a], v2[b])>>], 1)], 1)

\* C26: the min_incoming linker returns, for every node n1 of minimal in-degree
\* of the first graph (ascending) and every such node n2 of the second graph
\* (ascending), FirstToSecond(n1, n2), immediately followed by
\* SecondToFirst(n2, n1) in the bidirectional variant, and nothing else; it
\* returns no edge when either graph has no node.
C26_MinIncomingLinks ==
    \A j \in DOMAIN li :
        li[j].pc = "done" =>
            li[j].links = LinksOver(MinIncoming(MiInner(mi.outer[j][1])),
                                    MinIncoming(MiInner(mi.outer[j][2])),
                                    mi.bidirectional)

\* what holds of a linker call that found the cache empty: a bidirectional
\* call on two graphs of two isolated nodes returned the eight links
C26_FreshCacheWitness ==
    /\ mi.pc = "link_par"
    /\ mi.run = 1
    /\ mi.bidirectional
    /\ mi.outer = <<<<0, 1>>>>
    /\ li[1].pc = "done"
    /\ MiInner(0) = new_node(new_node(EmptyGraph))
    /\ li[1].links = LinksOver(<<0, 1>>, <<0, 1>>, TRUE)
    /\ Len(li[1].links) = 8

\* C30: the result of the min_incoming linker depends only on the two graphs
\* it is given: the vector compute_min_incoming returned for a handle (i, g)
\* is the one the uncached computation gives on g, also when an earlier call
\* presented another graph under the same index i.
C30_GraphsOnly ==
    \A j \in DOMAIN li :
        /\ (li[j].arg = 2) =>
               li[j].v1 = uncached_min_incoming(MiInner(mi.outer[j][1]))
        /\ (li[j].pc \in {"links", "done"}) =>
               li[j].v2 = uncached_min_incoming(MiInner(mi.outer[j][2]))

\* the second call presents another graph under index 0 and gets the vector
\* of the first call's graph
C30_StaleVector ==
    /\ mi.run = 2
    /\ mi.pc = "link_par"
    /\ \E j \in DOMAIN li :
          /\ li[j].arg = 2
          /\ mi.outer[j][1] = 0
          /\ MiInner(0) # mi.prev[1]
          /\ li[j].v1 = uncached_min_incoming(mi.prev[1])
          /\ li[j].v1 # uncached_min_incoming(MiInner(0))

\* --------------------------- properties of the Watts-Strogatz generator
\* C27: for every parameter triple the Watts-Strogatz factory accepts (k even,
\* n > k, 0 <= p <= 1) and every outcome of the random draws, the generator
\* returns, without aborting, a graph with exactly n nodes.
C27_ReturnsNNodes ==
    /\ ws.pc # "aborted"
    /\ ws.pc = "returned" => n_nodes(ws.g) = ws.n

\* the accepted triple (3, 0, p): the generator returned a graph without nodes
C27_NoNodes ==
    /\ ws.pc = "returned"
    /\ ws.n = 3
    /\ ws.k = 0
    /\ n_nodes(ws.g) = 0

\* the accepted triple (1, 0, p): Uniform::new(0, 0) aborted the generator
C27_EmptyIndexRange ==
    /\ ws.pc = "aborted"
    /\ ws.n = 1
    /\ ws.k = 0

OutDegree(gr, n) == Cardinality({x \in DOMAIN gr.edges : gr.edges[x][1] = n})

NoSelfLoop(gr) == \A x \in DOMAIN gr.edges : gr.edges[x][1] # gr.edges[x][2]

NoDuplicateEdge(gr) ==
    \A x, y \in DOMAIN gr.edges : gr.edges[x] = gr.edges[y] => x = y

\* C28: in build_graph, for every accepted (n, k, p) with k >= 2 and every
\* sequence of random choices, each remove_edge(i, old_target) finds its edge
\* (the fatal path is unreachable), each rewiring target is neither i nor a
\* current target of i, and after every rewiring step every node has
\* out-degree k / 2, there is no self-loop and no duplicate edge, and the
\* graph has n * k / 2 edges.
C28_Rewiring ==
    (ws.k >= 2) =>
        /\ ws.pc # "aborted"
        /\ (ws.last # NoRewiring) =>
               /\ find_edge(ws.last.pre, ws.last.i, ws.last.old_target)
               /\ ws.last.new_target # ws.last.i
               /\ ~find_edge(ws.last.pre, ws.last.i, ws.last.new_target)
        /\ (ws.pc \in {"rewire", "returned"}) =>
               /\ \A node \in 0..(ws.n - 1) : OutDegree(ws.g, node) = ws.k \div 2
               /\ NoSelfLoop(ws.g)
               /\ NoDuplicateEdge(ws.g)
               /\ n_nodes(ws.g) = ws.n
               /\ n_edges(ws.g) = ws.n * (ws.k \div 2)

\* the second edge of a node was rewired to the old target of its first
\* edge, which the first rewiring had put in not_targets
C28_Witness ==
    /\ ws.pc = "rewire"
    /\ ws.k = 4
    /\ ws.j = 2
    /\ ws.rewired >= 2
    /\ ws.last.old_target = (ws.last.i + 2) % ws.n
    /\ ws.last.new_target = (ws.last.i + 1) % ws.n
    /\ find_edge(ws.g, ws.i, (ws.i + 1) % ws.n)
    /\ ~find_edge(ws.g, ws.i, (ws.i + 2) % ws.n)

====
